---- MODULE Spec2Model ----
(***************************************************************************)
(* Model of the signalk-noon-log plugin: the SQLite-backed voyage ledger   *)
(* (LogStorage), the distance calculator, the noon report cycle, the       *)
(* position sampler and the report scheduler.                              *)
(*                                                                         *)
(* Units.  Time is in whole seconds (the resolution of every stored        *)
(* timestamp).  Coordinates are integers in units of 0.0005 degree.        *)
(* Distances are integers in units of 0.01 nautical mile.                  *)
(***************************************************************************)
EXTENDS Integers, Sequences, FiniteSets, TLC

(***************************************************************************)
(* Bounds of the model.                                                    *)
(***************************************************************************)
MaxLogs == 2        \* rows ever inserted into log_entries
MaxVoyages == 2     \* rows ever inserted into voyage_info
MaxTicks == 1       \* seconds the clock advances in the ledger specification
MaxTexts == 1       \* free texts ever submitted
MaxTrackLogs == 3   \* rows ever inserted into log_entries in the track specification
MaxTimeLen == 5      \* characters of a firstReportTime string in the parse specification
MaxTurn == 1         \* whole multiples of pi and 2 * pi among the raw values of the conversion specification
MaxPollLead == 2     \* check intervals between the start of the scheduler and the due instant in the poll specification
MaxSends == 2        \* report cycles waiting on their send in the send specification
MaxInFlight == 1    \* report cycles waiting on their email send at once

(***************************************************************************)
(* Values.                                                                 *)
(***************************************************************************)
\* JavaScript null / SQL NULL in a numeric or text column.
NULL == -999999

\* The sampler's threshold of 0.001 degree, in coordinate units.
SkipThreshold == 2

\* One degree in coordinate units (unit = 0.0005 degree).
UnitsPerDegree == 1000 * SkipThreshold

\* R * pi / 180 = 3440.065 * pi / 180 = 60.04 nm per degree, in 0.01 nm.
NmPerDegree == 6004

\* What app.getSelfPath(positionPath) can hold: nothing, or an object whose
\* latitude and longitude are each a number or missing.
NoFix == [latitude |-> NULL, longitude |-> NULL, object |-> FALSE]

\* `null` where a position object is expected.
NoPosition == [present |-> FALSE, latitude |-> NULL, longitude |-> NULL]

\* `null` where a log_entries row is expected.
NoLog == [id |-> NULL, latitude |-> NULL, longitude |-> NULL]

\* A raw position object with the given coordinates.
Fix(lat, lon) == [latitude |-> lat, longitude |-> lon, object |-> TRUE]

\* The values of the position path in the model: no object; an object with
\* neither coordinate; two fixes one degree of latitude apart; an object
\* without longitude and one without latitude; the point (0, 0).
RawPositions ==
  {NoFix,
   Fix(NULL, NULL),
   Fix(UnitsPerDegree, UnitsPerDegree),
   Fix(2 * UnitsPerDegree, UnitsPerDegree),
   Fix(UnitsPerDegree, NULL),
   Fix(NULL, UnitsPerDegree),
   Fix(0, 0)}

\* The database file is not followed: no file, no timer, nothing pending.
NoFile == [written |-> FALSE]

\* No parseTime call is under examination.
NoConversion ==
  [value |-> NULL, path |-> {}, useMetric |-> FALSE, done |-> FALSE, result |-> NULL,
   unit |-> ""]

NoTimeCall ==
  [timeStr |-> <<>>, done |-> FALSE, hours |-> NULL, minutes |-> NULL, reported |-> FALSE]

\* No haversineDistance call is under examination.
NoCalc == [lat1 |-> NULL, lon1 |-> NULL, lat2 |-> NULL, lon2 |-> NULL, there |-> NULL, back |-> NULL]

\* What collectCustomData() returns: one converted reading for the one
\* configured path (options.customDataPaths), whose value is always available.
CustomDataSets == {<<"environment.wind.speedApparent">>}

\* Voyage names a client can send; "" is an empty or missing name.
VoyageNames == {"Atlantic", ""}

DefaultVoyageName == "Voyage <date>"

\* The clock of the ledger specification starts so that its last second is
\* the one before the noon anchor of day 0 (12:00 UTC = 43200 s).
StartTime == 43200 - MaxTicks - 1

(***************************************************************************)
(* State.                                                                  *)
(***************************************************************************)
VARIABLES
  now,              \* Date.now() in seconds
  options,          \* plugin.options: the configuration handed to start()
  hostOffset,       \* offset of the host's local time zone from UTC, in seconds
  faults,           \* the calls that can throw in this run (environment)
  calc,             \* the arguments and results of the haversineDistance calls of the
                    \* distance specification
  timeCall,         \* the argument and the result of the parseTime call of the parse
                    \* specification
  conversion,       \* the arguments and the result of the convertValueWithUnit call of
                    \* the conversion specification
  debounced,        \* the LogStorage loaded is the one of plugin/lib/storage.js, which
                    \* delays its saves (followed in the storage specification only)
  disk,             \* the tables in the database file, as last written
  saveTimeout,      \* LogStorage.saveTimeout is set
  savePending,      \* LogStorage.savePending
  started,          \* plugin.start() has run storage init and the first-voyage check
  waiting,          \* the positionCheckInterval of waitForPosition is set
  positionCheckCount, \* the counter of waitForPosition (counted in the wait specification)
  degraded,         \* the wait timed out: 'Started without position data' was reported
  tracker,          \* PositionTracker.interval is set
  scheduler,        \* plugin.scheduler: "none", or a ReportScheduler whose
                    \* checkInterval is set ("running") or cleared ("stopped")
  stopped,          \* plugin.stop() has run: the database handle is closed
  lastReportTime,   \* ReportScheduler.lastReportTime
  voyage_info,      \* table voyage_info: set of rows
  voyageSeq,        \* AUTOINCREMENT counter of voyage_info
  log_entries,      \* table log_entries: set of rows
  logSeq,           \* AUTOINCREMENT counter of log_entries
  log_data,         \* table log_data: set of rows
  dataSeq,          \* AUTOINCREMENT counter of log_data
  distance_log,     \* table distance_log: set of rows
  distSeq,          \* AUTOINCREMENT counter of distance_log
  pendingLogText,   \* plugin.pendingLogText
  textSeq,          \* number of free texts submitted so far
  lastPosition,     \* PositionTracker.lastPosition
  mailer,           \* plugin.mailer is set
  inFlight,         \* report cycles suspended in `await sendEmail`: set of log ids
  sendLog,          \* log ids handed to mailer.sendNoonLog, in call order (observation only)
  markLog,          \* log ids handed to storage.markEmailSent, in call order (observation only)
  firings,          \* the scheduler's invocations of the callback, in order: the due
                    \* instant and the time of the poll (observation only)
  lastOp            \* the last handler that ran, with its outcome and, for a report
                    \* cycle, the position it read (observation only)

vars == <<now, options, hostOffset, faults, calc, timeCall, conversion, debounced, disk, saveTimeout, savePending,
          started, waiting, positionCheckCount,
          degraded, tracker, scheduler, stopped,
          lastReportTime,
          voyage_info, voyageSeq, log_entries, logSeq, log_data, dataSeq, distance_log,
          distSeq, pendingLogText, textSeq, lastPosition, mailer, inFlight, sendLog, markLog,
          firings, lastOp>>

\* The four tables with their AUTOINCREMENT counters.
tables == <<voyage_info, voyageSeq, log_entries, logSeq, log_data, dataSeq,
            distance_log, distSeq>>

\* The tables a log entry is written to.
logTables == <<log_entries, logSeq, log_data, dataSeq, distance_log, distSeq>>

\* The state of the report cycles.
cycle == <<pendingLogText, inFlight, sendLog, markLog>>

\* The configuration and the environment of one run.
config == <<options, hostOffset, faults, calc, timeCall, conversion, debounced, disk, saveTimeout, savePending>>

\* The plugin's components apart from storage and scheduler.
plugin == <<started, waiting, positionCheckCount, degraded, tracker, mailer, stopped>>

\* The scheduler.
sched == <<scheduler, lastReportTime, firings>>

(***************************************************************************)
(* Helpers.                                                                *)
(***************************************************************************)
\* JavaScript truthiness of a number-or-null: null, undefined and 0 are falsy.
Truthy(x) == x # NULL /\ x # 0

\* `x || null`
OrNull(x) == IF Truthy(x) THEN x ELSE NULL

\* Numeric coercion of null in arithmetic (null - 3 = -3).
Num(x) == IF x = NULL THEN 0 ELSE x

Abs(x) == IF x < 0 THEN -x ELSE x

RECURSIVE SqrtBits(_, _, _)
\* Integer square root by bisection on [lo, hi): floor(sqrt(x)).
SqrtBits(x, lo, hi) ==
  IF hi - lo <= 1 THEN lo
  ELSE LET mid == (lo + hi) \div 2
       IN  IF mid * mid <= x THEN SqrtBits(x, mid, hi) ELSE SqrtBits(x, lo, mid)

ISqrt(x) == SqrtBits(x, 0, 46340)

RECURSIVE SumOver(_, _)
\* Sum of f[r] over the rows r of the set S.
SumOver(S, f) ==
  IF S = {} THEN 0
  ELSE LET r == CHOOSE r \in S : TRUE
       IN  f[r] + SumOver(S \ {r}, f)

(***************************************************************************)
(* LogStorage: queries.                                                    *)
(***************************************************************************)
\* Rows of voyage_info with is_active = 1.
ActiveVoyages == {v \in voyage_info : v.is_active = 1}

\* getActiveVoyage(): `SELECT * FROM voyage_info WHERE is_active = 1 LIMIT 1`;
\* the ids it can return (NULL when there is no active voyage).
getActiveVoyage == IF ActiveVoyages = {} THEN {NULL} ELSE {v.id : v \in ActiveVoyages}

\* getLastLog() answered from a read made before the latest appends: any row.
getLastLog_Stale == log_entries

\* getLastLog(): `ORDER BY timestamp DESC LIMIT 1`; the rows it can return.
\* Rows with the same (one-second) timestamp tie, and SQL leaves the winner open.
getLastLog == {e \in log_entries : \A f \in log_entries : f.timestamp <= e.timestamp}

\* getVoyageDistance(): SUM(dl.distance_since_last) over distance_log joined
\* with its log entry and with every active voyage, for entries whose
\* timestamp is not before the voyage start; `|| 0` when nothing matches.
getVoyageDistance ==
  LET joined == {<<dl, le, v>> \in distance_log \X log_entries \X ActiveVoyages :
                   dl.log_id = le.id /\ le.timestamp >= v.start_timestamp}
  IN  SumOver(joined, [t \in joined |-> t[1].distance_since_last])

\* getLogsByVoyage without the `AND timestamp < ?` bound: every entry from the
\* start of the voyage on, the later voyages' entries included.
getLogsByVoyage_NoEnd(voyageId) ==
  LET found == {v \in voyage_info : v.id = voyageId}
  IN  IF found = {} THEN {}
      ELSE {e \in log_entries : e.timestamp >= (CHOOSE v \in found : TRUE).start_timestamp}

\* getLogsByVoyage(voyageId): entries in the time range of the voyage, from
\* its start up to the start of the voyage with the next higher id.
getLogsByVoyage(voyageId) ==
  LET found == {v \in voyage_info : v.id = voyageId}
  IN  IF found = {} THEN {}
      ELSE LET voyage == CHOOSE v \in found : TRUE
               later == {v \in voyage_info : v.id > voyageId}
               endTimestamp ==
                 IF voyage.is_active = 0 /\ later # {}
                 THEN (CHOOSE v \in later : \A w \in later : v.id <= w.id).start_timestamp
                 ELSE NULL
           IN  {e \in log_entries :
                  /\ e.timestamp >= voyage.start_timestamp
                  /\ (Truthy(endTimestamp) => e.timestamp < endTimestamp)}

(***************************************************************************)
(* LogStorage: updates, as the new value of the table they write.          *)
(***************************************************************************)
\* createLogEntry(data): the row inserted, for the voyage id getActiveVoyage gave.
createLogEntry(voyageId, data) ==
  [id |-> logSeq + 1,
   voyage_id |-> voyageId,
   timestamp |-> data.timestamp,
   latitude |-> OrNull(data.latitude),
   longitude |-> OrNull(data.longitude),
   log_text |-> OrNull(data.logText),
   email_sent |-> IF data.emailSent THEN 1 ELSE 0,
   is_auto_track |-> IF data.isAutoTrack THEN 1 ELSE 0]

\* addLogData, once per element of customData: the rows inserted.
addLogData(logId, customData) ==
  {[id |-> dataSeq + i, log_id |-> logId, data_path |-> customData[i]] :
     i \in 1..Len(customData)}

\* addDistanceData(logId, distanceSinceLast, totalDistance): the row inserted.
addDistanceData(logId, distanceData) ==
  [id |-> distSeq + 1,
   log_id |-> logId,
   distance_since_last |-> distanceData.distanceSinceLast,
   total_distance |-> distanceData.totalDistance]

\* markEmailSent(logId): `UPDATE log_entries SET email_sent = 1 WHERE id = ?`.
markEmailSent(logId) ==
  {IF e.id = logId THEN [e EXCEPT !.email_sent = 1] ELSE e : e \in log_entries}

\* startNewVoyage without its first statement (`UPDATE ... SET is_active = 0`):
\* the new voyage is inserted and the active one is not ended.
startNewVoyage_KeepsActive(name) ==
  voyage_info
  \cup {[id |-> voyageSeq + 1,
         voyage_name |-> IF name = "" THEN DefaultVoyageName ELSE name,
         start_timestamp |-> now,
         end_timestamp |-> NULL,
         is_active |-> 1]}

\* startNewVoyage(name): ends every active voyage, then inserts the new one.
startNewVoyage(name) ==
  {IF v.is_active = 1 THEN [v EXCEPT !.is_active = 0, !.end_timestamp = now] ELSE v :
     v \in voyage_info}
  \cup {[id |-> voyageSeq + 1,
         voyage_name |-> IF name = "" THEN DefaultVoyageName ELSE name,
         start_timestamp |-> now,
         end_timestamp |-> NULL,
         is_active |-> 1]}


(***************************************************************************)
(* DataCollector.                                                          *)
(***************************************************************************)
\* getPosition(): null unless the path holds an object; each coordinate `|| null`.
getPosition(raw) ==
  IF ~raw.object THEN NoPosition
  ELSE [present |-> TRUE,
        latitude |-> OrNull(raw.latitude),
        longitude |-> OrNull(raw.longitude)]

\* Values of convertValueWithUnit are in thousandths of their unit, and the
\* factors of CONVERSIONS in thousandths too.
FactorScale == 10 * 100

\* KELVIN_TO_CELSIUS (273.15), in thousandths.
KELVIN_TO_CELSIUS == 273150

\* CELSIUS_TO_FAHRENHEIT_ADD (32), in thousandths.
CELSIUS_TO_FAHRENHEIT_ADD == 32000

\* MS_TO_KNOTS (1.94384), in thousandths.
MS_TO_KNOTS == 1944

\* MS_TO_KMH (3.6), in thousandths.
MS_TO_KMH == 3600

\* RADIANS_TO_DEGREES (180 / Math.PI = 57.29578), in thousandths.
RADIANS_TO_DEGREES == 57296

\* The words path.includes() is asked about up to the wind angle branch and
\* in the speed branch; a path is the set of these words it contains.
PathWords == {"temperature", "wind", "speed", "angle", "direction"}

\* value * factor
Times(value, factor) == (value * factor) \div FactorScale

\* convertValueWithUnit(value, path), for the paths made of PathWords: the
\* branches are tried in the order of the code, and a path none of them takes
\* is returned unconverted.
convertValueWithUnit(value, path, useMetric) ==
  IF value = NULL THEN [value |-> NULL, unit |-> ""]
  ELSE IF "temperature" \in path
  THEN IF useMetric
       THEN [value |-> value - KELVIN_TO_CELSIUS, unit |-> "C"]
       ELSE [value |-> ((value - KELVIN_TO_CELSIUS) * 9) \div 5 + CELSIUS_TO_FAHRENHEIT_ADD,
             unit |-> "F"]
  ELSE IF "wind" \in path /\ "speed" \in path
  THEN IF useMetric
       THEN [value |-> value, unit |-> "m/s"]
       ELSE [value |-> Times(value, MS_TO_KNOTS), unit |-> "kts"]
  ELSE IF "wind" \in path /\ ("angle" \in path \/ "direction" \in path)
  THEN LET degrees == Times(value, RADIANS_TO_DEGREES)
       IN  [value |-> IF degrees < 0 THEN degrees + 360 * 1000 ELSE degrees, unit |-> "deg"]
  ELSE IF "speed" \in path /\ "wind" \notin path
  THEN IF useMetric
       THEN [value |-> Times(value, MS_TO_KMH), unit |-> "km/h"]
       ELSE [value |-> Times(value, MS_TO_KNOTS), unit |-> "kts"]
  ELSE [value |-> value, unit |-> ""]

\* collectNoonData(): position, readings and the timestamp in seconds.
collectNoonData(raw, customData) ==
  [timestamp |-> now, position |-> getPosition(raw), customData |-> customData]

\* The test with `!noonData.position` alone: only a missing object counts.
NoPositionData_ObjectOnly(noonData) == ~noonData.position.present

\* `!noonData.position || !noonData.position.latitude`
NoPositionData(noonData) ==
  ~noonData.position.present \/ ~Truthy(noonData.position.latitude)

(***************************************************************************)
(* DistanceCalculator.                                                     *)
(***************************************************************************)
\* haversineDistance without the squares under the root: the differences
\* enter with their sign.
haversineDistance_Signed(lat1, lon1, lat2, lon2) ==
  LET dLat == Num(lat2) - Num(lat1)
      dLon == Num(lon2) - Num(lon1)
  IN  ((dLat + dLon) * NmPerDegree) \div UnitsPerDegree

\* haversineDistance, in 0.01 nm.  The model evaluates the great-circle
\* distance on the small grid of Coords, where it is R * sqrt(dLat^2 + dLon^2)
\* in radians to within 0.1 nm; a null coordinate counts as 0 in arithmetic.
haversineDistance(lat1, lon1, lat2, lon2) ==
  LET dLat == Num(lat2) - Num(lat1)
      dLon == Num(lon2) - Num(lon1)
  IN  (ISqrt(dLat * dLat + dLon * dLon) * NmPerDegree) \div UnitsPerDegree

\* Math.round(x * 10) / 10 for x >= 0: to the nearest 0.1 nm, halves up.
RoundTenth(x) == ((x + 5) \div 10) * 10

\* getDistanceSinceLast, for the row getLastLog() returned.
getDistanceSinceLast(lastLog, currentLat, currentLon) ==
  IF lastLog.id = NULL \/ ~Truthy(lastLog.latitude) \/ ~Truthy(lastLog.longitude)
  THEN 0
  ELSE haversineDistance(lastLog.latitude, lastLog.longitude, currentLat, currentLon)

\* calculateDistanceData, for the row getLastLog() returned.
calculateDistanceData(lastLog, currentLat, currentLon) ==
  LET distanceSinceLast == getDistanceSinceLast(lastLog, currentLat, currentLon)
      currentTotal == getVoyageDistance
      totalDistance == currentTotal + distanceSinceLast
  IN  [distanceSinceLast |-> RoundTenth(distanceSinceLast),
       totalDistance |-> RoundTenth(totalDistance)]

(***************************************************************************)
(* ReportScheduler: time arithmetic.                                       *)
(***************************************************************************)
SECONDS_PER_HOUR == 3600

\* A calendar day of the Date arithmetic.
SECONDS_PER_DAY == 24 * SECONDS_PER_HOUR

DEFAULT_REPORT_INTERVAL_HOURS == 24

\* CHECK_INTERVAL_MS, in seconds.
CHECK_INTERVAL == 60

\* REPORT_TRIGGER_WINDOW_MS, in seconds.
REPORT_TRIGGER_WINDOW == 60

\* maxPositionChecks of waitForPosition: 24 checks, 5 seconds apart.
maxPositionChecks == 24

\* parseTime: hours and minutes of firstReportTime, or 12:00 when out of range.
parseTime(timeStr) ==
  IF timeStr[1] < 0 \/ timeStr[1] > 23 \/ timeStr[2] < 0 \/ timeStr[2] > 59
  THEN [hours |-> 12, minutes |-> 0]
  ELSE [hours |-> timeStr[1], minutes |-> timeStr[2]]

\* The characters of a firstReportTime string: three digits, the colon, and
\* a letter for every character Number() cannot read.
TimeDigits == {"0", "2", "7"}

TimeChars == TimeDigits \cup {":", "a"}

\* The value of a digit character.
DigitValue(c) == IF c = "0" THEN 0 ELSE IF c = "2" THEN 2 ELSE 7

RECURSIVE split(_)
\* timeStr.split(':'): the pieces between the colons, empty ones included.
split(str) ==
  IF \A i \in 1..Len(str) : str[i] # ":"
  THEN <<str>>
  ELSE LET at == CHOOSE i \in 1..Len(str) :
                   str[i] = ":" /\ \A j \in 1..(i - 1) : str[j] # ":"
       IN  <<SubSeq(str, 1, at - 1)>> \o split(SubSeq(str, at + 1, Len(str)))

RECURSIVE Number(_)
\* Number(piece): 0 for the empty string, the decimal value of a string of
\* digits, NaN (NULL here) otherwise.
Number(piece) ==
  IF piece = <<>> THEN 0
  ELSE IF piece[Len(piece)] \notin TimeDigits THEN NULL
  ELSE LET front == Number(SubSeq(piece, 1, Len(piece) - 1))
       IN  IF front = NULL THEN NULL ELSE front * 10 + DigitValue(piece[Len(piece)])

\* const [hours, minutes] = timeStr.split(':').map(Number): a missing second
\* piece is undefined, for which isNaN holds as for NaN.
splitNumbers(str) ==
  LET pieces == split(str)
  IN  <<Number(pieces[1]), IF Len(pieces) >= 2 THEN Number(pieces[2]) ELSE NULL>>

\* parseTime on a string, with whether app.error was called.  NaN (NULL) fails
\* the test `hours < 0` of the model as it passes isNaN in the code.
parseTimeString(str) ==
  LET nums == splitNumbers(str)
      time == parseTime(nums)
  IN  [hours |-> time.hours, minutes |-> time.minutes,
       reported |-> (nums[1] < 0 \/ nums[1] > 23 \/ nums[2] < 0 \/ nums[2] > 59)]

\* Date.setUTCHours(h, m, 0, 0) for offset 0 and Date.setHours(h, m, 0, 0) for
\* the host's offset: h:m on the calendar day that contains t in that zone.
SetHours(t, offset, hours, minutes) ==
  ((t + offset) \div SECONDS_PER_DAY) * SECONDS_PER_DAY - offset
    + hours * SECONDS_PER_HOUR + minutes * 60

\* getNextReportTime() at time t.
NextReportTimeAt(t) ==
  LET intervalMs ==
        (IF Truthy(options.reportInterval) THEN options.reportInterval
         ELSE DEFAULT_REPORT_INTERVAL_HOURS) * SECONDS_PER_HOUR
      parsed == parseTime(options.firstReportTime)
      useGpsTime == options.timezoneMode = "gps"
      nextReport == SetHours(t, IF useGpsTime THEN 0 ELSE hostOffset,
                             parsed.hours, parsed.minutes)
  IN  IF nextReport <= t
      THEN nextReport + (((t - nextReport) \div intervalMs) + 1) * intervalMs
      ELSE nextReport

getNextReportTime == NextReportTimeAt(now)


(***************************************************************************)
(* Initial state: the plugin object is constructed and the database file   *)
(* does not exist yet.                                                     *)
(***************************************************************************)
\* LogStorage's constructor: saveTimeout = null, savePending = false; in the
\* specifications that do not follow the database file the storage is the
\* one that saves at once.
NoStorageFile ==
  /\ debounced = FALSE
  /\ disk = NoFile
  /\ saveTimeout = FALSE
  /\ savePending = FALSE

InitPlugin ==
  /\ started = FALSE
  /\ waiting = FALSE
  /\ positionCheckCount = 0
  /\ degraded = FALSE
  /\ tracker = FALSE
  /\ scheduler = "none"
  /\ stopped = FALSE
  /\ lastReportTime = NULL
  /\ voyage_info = {}
  /\ voyageSeq = 0
  /\ log_entries = {}
  /\ logSeq = 0
  /\ log_data = {}
  /\ dataSeq = 0
  /\ distance_log = {}
  /\ distSeq = 0
  /\ pendingLogText = NULL
  /\ textSeq = 0
  /\ lastPosition = NoPosition
  /\ mailer = FALSE
  /\ inFlight = {}
  /\ sendLog = <<>>
  /\ markLog = <<>>
  /\ firings = <<>>
  /\ lastOp = [op |-> "construct", ok |-> TRUE, raw |-> NoFix]

\* The configurations of the ledger specification: a daily report at 12:00
\* GPS time, position tracking on, email on or off.
LedgerOptions ==
  [reportInterval : {24}, firstReportTime : {<<12, 0>>}, timezoneMode : {"gps"},
   timezoneOffset : {0}, positionTracking : {TRUE}, email : BOOLEAN]

Init ==
  /\ now = StartTime
  /\ options \in LedgerOptions
  /\ hostOffset = 0
  /\ faults = {}
  /\ calc = NoCalc
  /\ conversion = NoConversion
  /\ timeCall = NoTimeCall
  /\ NoStorageFile
  /\ InitPlugin

(***************************************************************************)
(* NoonReportHandler.                                                      *)
(***************************************************************************)
\* The storage call of createDatabaseEntry that throws, if any (a failing
\* statement; saveDatabase swallows its own errors).
StorageFailures == {"createLogEntry", "addLogData", "addDistanceData"}

\* createDatabaseEntry(noonData, distanceData), for the voyage id
\* getActiveVoyage gave, up to the call that throws.  Writes logTables.
createDatabaseEntry(noonData, distanceData, voyageId, fail) ==
  LET entry ==
        createLogEntry(voyageId,
          [timestamp |-> noonData.timestamp,
           latitude |-> noonData.position.latitude,
           longitude |-> noonData.position.longitude,
           logText |-> pendingLogText,
           emailSent |-> FALSE,
           isAutoTrack |-> FALSE])
  IN  IF fail = "createLogEntry"
      THEN UNCHANGED logTables
      ELSE /\ log_entries' = log_entries \cup {entry}
           /\ logSeq' = logSeq + 1
           /\ IF fail = "addLogData"
              THEN UNCHANGED <<log_data, dataSeq, distance_log, distSeq>>
              ELSE /\ log_data' = log_data \cup addLogData(entry.id, noonData.customData)
                   /\ dataSeq' = dataSeq + Len(noonData.customData)
                   /\ IF fail = "addDistanceData"
                      THEN UNCHANGED <<distance_log, distSeq>>
                      ELSE /\ distance_log' =
                                distance_log \cup {addDistanceData(entry.id, distanceData)}
                           /\ distSeq' = distSeq + 1

\* A catch block that also clears the pending text.
ReportError_ClearsText ==
  /\ lastOp' = [op |-> "handleNoonReport.catch", ok |-> FALSE, raw |-> NoFix]
  /\ pendingLogText' = NULL

\* The catch block of handleNoonReport: the error is reported and the
\* pending text is left as it is.  Writes pendingLogText and lastOp.
ReportError ==
  /\ lastOp' = [op |-> "handleNoonReport.catch", ok |-> FALSE, raw |-> NoFix]
  /\ UNCHANGED pendingLogText

\* handleNoonReport() up to `await sendEmail`; without a mailer the rest of
\* the cycle follows in the same turn.  Writes logTables, cycle and lastOp.
handleNoonReport(raw, customData) ==
  LET noonData == collectNoonData(raw, customData)
  IN  IF NoPositionData(noonData)
      THEN /\ lastOp' = [op |-> "handleNoonReport", ok |-> FALSE, raw |-> raw]
           /\ UNCHANGED <<logTables, cycle>>
      ELSE IF stopped
      THEN \* the database is closed: getLastLog() throws
           /\ ReportError
           /\ UNCHANGED <<logTables, inFlight, sendLog, markLog>>
      ELSE \E lastLog \in (IF log_entries = {} THEN {NoLog} ELSE getLastLog),
              voyageId \in getActiveVoyage,
              fail \in {"none"} \cup (faults \cap StorageFailures) :
             LET distanceData ==
                   calculateDistanceData(lastLog, noonData.position.latitude,
                                         noonData.position.longitude)
             IN  /\ fail = "addLogData" => Len(noonData.customData) > 0
                 /\ createDatabaseEntry(noonData, distanceData, voyageId, fail)
                 /\ IF fail # "none"
                    THEN ReportError /\ UNCHANGED <<inFlight, sendLog, markLog>>
                    ELSE /\ IF mailer
                            THEN /\ inFlight' = inFlight \cup {logSeq + 1}
                                 /\ sendLog' = Append(sendLog, logSeq + 1)
                                 /\ UNCHANGED <<pendingLogText, markLog>>
                            ELSE /\ pendingLogText' = NULL
                                 /\ UNCHANGED <<inFlight, sendLog, markLog>>
                         /\ lastOp' = [op |-> "handleNoonReport", ok |-> TRUE, raw |-> raw]

\* The bound on the rows and on the suspended cycles a further cycle may add.
RoomFor(limit) ==
  /\ logSeq < limit
  /\ mailer => Cardinality(inFlight) < MaxInFlight

RoomForReport == RoomFor(MaxLogs)

\* The rest of the cycle with markEmailSent called whatever the result.
EmailDone_MarksAlways(logId, success) ==
  /\ logId \in inFlight
  /\ inFlight' = inFlight \ {logId}
  /\ log_entries' = markEmailSent(logId)
  /\ markLog' = Append(markLog, logId)
  /\ pendingLogText' = NULL
  /\ lastOp' = [op |-> "sendEmail", ok |-> success, raw |-> NoFix]
  /\ UNCHANGED <<now, config, plugin, sched, voyage_info, voyageSeq, logSeq, log_data,
                 dataSeq, distance_log, distSeq, textSeq, lastPosition, sendLog>>

\* The cycle resumes after `await this.plugin.mailer.sendNoonLog(...)` returned
\* {success}: markEmailSent on success, then the pending text is cleared.  On
\* a closed database markEmailSent throws and the cycle ends in its catch block.
EmailDone(logId, success) ==
  /\ logId \in inFlight
  /\ inFlight' = inFlight \ {logId}
  /\ IF success /\ stopped
     THEN /\ ReportError
          /\ UNCHANGED <<log_entries, markLog>>
     ELSE /\ IF success
             THEN /\ log_entries' = markEmailSent(logId)
                  /\ markLog' = Append(markLog, logId)
             ELSE UNCHANGED <<log_entries, markLog>>
          /\ pendingLogText' = NULL
          /\ lastOp' = [op |-> "sendEmail", ok |-> success, raw |-> NoFix]
  /\ UNCHANGED <<now, config, plugin, sched, voyage_info, voyageSeq, logSeq, log_data,
                 dataSeq, distance_log, distSeq, textSeq, lastPosition, sendLog>>

\* mailer.sendNoonLog(...) throws while it prepares the email (the formatter
\* calls are outside its try block): the cycle ends in its catch block.
EmailThrows(logId) ==
  /\ "sendNoonLog" \in faults
  /\ logId \in inFlight
  /\ inFlight' = inFlight \ {logId}
  /\ ReportError
  /\ UNCHANGED <<now, config, plugin, sched, tables, textSeq, lastPosition, sendLog, markLog>>

(***************************************************************************)
(* PositionTracker.                                                        *)
(***************************************************************************)
\* shouldSkipPosition(position)
shouldSkipPosition(position) ==
  /\ lastPosition.present
  /\ Abs(Num(position.latitude) - Num(lastPosition.latitude)) < SkipThreshold
  /\ Abs(Num(position.longitude) - Num(lastPosition.longitude)) < SkipThreshold

\* Whether recordPosition() gets as far as writing the entry.
Records(raw, customData) ==
  LET noonData == collectNoonData(raw, customData)
  IN  ~NoPositionData(noonData) /\ ~shouldSkipPosition(noonData.position)

\* The call of recordPosition that may throw: storage.createLogEntry.
TrackerFailure == "recordPosition.createLogEntry"

\* recordPosition(), with the ids getActiveVoyage() can return at that point.
\* Writes log_entries, logSeq, log_data, dataSeq and lastPosition.
recordPosition(raw, customData, voyageIds) ==
  LET noonData == collectNoonData(raw, customData)
  IN  IF ~Records(raw, customData)
      THEN UNCHANGED <<log_entries, logSeq, log_data, dataSeq, lastPosition>>
      ELSE \E voyageId \in voyageIds :
             LET entry ==
                   createLogEntry(voyageId,
                     [timestamp |-> noonData.timestamp,
                      latitude |-> noonData.position.latitude,
                      longitude |-> noonData.position.longitude,
                      logText |-> NULL,
                      emailSent |-> FALSE,
                      isAutoTrack |-> TRUE])
             IN  /\ lastPosition' = noonData.position
                 /\ \/ /\ log_entries' = log_entries \cup {entry}
                       /\ logSeq' = logSeq + 1
                       /\ log_data' = log_data \cup addLogData(entry.id, noonData.customData)
                       /\ dataSeq' = dataSeq + Len(noonData.customData)
                    \/ \* storage.createLogEntry throws: the catch block reports it
                       /\ TrackerFailure \in faults
                       /\ UNCHANGED <<log_entries, logSeq, log_data, dataSeq>>

\* One firing of the tracker's interval timer, while fewer than `limit` rows
\* have been inserted into log_entries.
SamplerTickUpTo(limit, raw, customData) ==
  /\ tracker
  /\ logSeq < limit
  /\ recordPosition(raw, customData, getActiveVoyage)
  /\ lastOp' = [op |-> "recordPosition", ok |-> Records(raw, customData), raw |-> NoFix]
  /\ UNCHANGED <<now, config, plugin, sched, voyage_info, voyageSeq, distance_log, distSeq,
                 cycle, textSeq>>

SamplerTick(raw, customData) == SamplerTickUpTo(MaxLogs, raw, customData)


(***************************************************************************)
(* ReportScheduler: polling.                                               *)
(***************************************************************************)
\* checkForScheduledReport without the test of lastReportTime: every poll in
\* the trigger window fires.
checkForScheduledReport_NoDedupe(last, raw, customData) ==
  LET nextReport == getNextReportTime
      timeDiff == Abs(now - nextReport)
  IN  IF timeDiff < REPORT_TRIGGER_WINDOW
      THEN /\ handleNoonReport(raw, customData)
           /\ lastReportTime' = nextReport
           /\ firings' = Append(firings, [due |-> nextReport, at |-> now])
      ELSE /\ lastReportTime' = last
           /\ lastOp' = [op |-> "checkForScheduledReport", ok |-> FALSE, raw |-> NoFix]
           /\ UNCHANGED <<logTables, cycle, firings>>

\* checkForScheduledReport(), for a scheduler whose lastReportTime is `last`:
\* fires the callback when due and records the due instant.
\* Writes logTables, cycle, lastReportTime, firings and lastOp.
checkForScheduledReport(last, raw, customData) ==
  LET nextReport == getNextReportTime
      timeDiff == Abs(now - nextReport)
  IN  IF /\ timeDiff < REPORT_TRIGGER_WINDOW
         /\ ~(last # NULL /\ Abs(last - nextReport) < REPORT_TRIGGER_WINDOW)
      THEN /\ handleNoonReport(raw, customData)
           /\ lastReportTime' = nextReport
           /\ firings' = Append(firings, [due |-> nextReport, at |-> now])
      ELSE /\ lastReportTime' = last
           /\ lastOp' = [op |-> "checkForScheduledReport", ok |-> FALSE, raw |-> NoFix]
           /\ UNCHANGED <<logTables, cycle, firings>>

\* A firing of the checkInterval timer that returns at once while a report
\* cycle waits on its send.
PollUpTo_WaitsForSend(limit, sends, raw, customData) ==
  /\ scheduler = "running"
  /\ logSeq < limit
  /\ mailer => Cardinality(inFlight) < sends
  /\ IF inFlight # {}
     THEN /\ lastOp' = [op |-> "checkForScheduledReport", ok |-> FALSE, raw |-> NoFix]
          /\ UNCHANGED <<lastReportTime, firings, logTables, cycle>>
     ELSE checkForScheduledReport(lastReportTime, raw, customData)
  /\ UNCHANGED <<now, config, plugin, scheduler, voyage_info, voyageSeq, textSeq,
                 lastPosition>>

\* One firing of the scheduler's checkInterval timer, while fewer than
\* `limit` rows have been inserted into log_entries and fewer than `sends`
\* report cycles wait on their send.
PollUpTo(limit, sends, raw, customData) ==
  /\ scheduler = "running"
  /\ logSeq < limit
  /\ mailer => Cardinality(inFlight) < sends
  /\ checkForScheduledReport(lastReportTime, raw, customData)
  /\ UNCHANGED <<now, config, plugin, scheduler, voyage_info, voyageSeq, textSeq,
                 lastPosition>>

Poll(raw, customData) == PollUpTo(MaxLogs, MaxInFlight, raw, customData)

\* A manual trigger that records the next due instant as fired, as a
\* scheduled firing does.
ManualTriggerUpTo_Records(limit, raw, customData) ==
  /\ scheduler # "none"
  /\ RoomFor(limit)
  /\ handleNoonReport(raw, customData)
  /\ lastReportTime' = getNextReportTime
  /\ UNCHANGED <<now, config, plugin, scheduler, firings, voyage_info, voyageSeq, textSeq,
                 lastPosition>>

\* POST /api/sendNow -> scheduler.manualTrigger() -> triggerReport(), while
\* fewer than `limit` rows have been inserted into log_entries.
ManualTriggerUpTo(limit, raw, customData) ==
  /\ scheduler # "none"
  /\ RoomFor(limit)
  /\ handleNoonReport(raw, customData)
  /\ UNCHANGED <<now, config, plugin, sched, voyage_info, voyageSeq, textSeq, lastPosition>>

ManualTrigger(raw, customData) == ManualTriggerUpTo(MaxLogs, raw, customData)

(***************************************************************************)
(* The plugin: start and the wait for a position.                          *)
(***************************************************************************)
\* plugin.start(options): storage init, first-voyage check, the components,
\* the tracker's first sample, and the position check timer.
Start(raw, customData) ==
  /\ ~started
  /\ started' = TRUE
  /\ IF ActiveVoyages = {}
     THEN /\ voyage_info' = startNewVoyage("First Voyage")
          /\ voyageSeq' = voyageSeq + 1
     ELSE UNCHANGED <<voyage_info, voyageSeq>>
  /\ mailer' = options.email
  /\ IF options.positionTracking
     THEN /\ tracker' = TRUE
          /\ recordPosition(raw, customData,
                            IF ActiveVoyages = {} THEN {voyageSeq + 1} ELSE getActiveVoyage)
     ELSE /\ tracker' = FALSE
          /\ UNCHANGED <<log_entries, logSeq, log_data, dataSeq, lastPosition>>
  /\ waiting' = TRUE
  /\ positionCheckCount' = 0
  /\ lastOp' = [op |-> "start", ok |-> TRUE, raw |-> NoFix]
  /\ UNCHANGED <<now, config, sched, stopped, degraded, distance_log, distSeq, cycle,
                 textSeq>>

\* The body of the positionCheckInterval callback.  `expired` stands for the
\* counter having reached maxPositionChecks.  Either branch ends the wait with
\* startScheduler(): a new ReportScheduler, started, with its immediate check.
\* The counter and the report of the timeout are left to the two actions below.
waitForPosition(raw, customData, expired) ==
  /\ waiting
  /\ RoomForReport
  /\ LET position == collectNoonData(raw, customData).position
     IN  IF (position.present /\ Truthy(position.latitude)) \/ expired
         THEN /\ waiting' = FALSE
              /\ scheduler' = "running"
              /\ checkForScheduledReport(NULL, raw, customData)
         ELSE UNCHANGED <<waiting, sched, logTables, cycle, lastOp>>
  /\ UNCHANGED <<now, config, started, tracker, mailer, stopped, voyage_info, voyageSeq,
                 textSeq, lastPosition>>

\* One firing of positionCheckInterval, with the counter abstracted: the
\* timeout may come at any firing, and its report is not recorded.
PositionCheck(raw, customData, expired) ==
  /\ waitForPosition(raw, customData, expired)
  /\ UNCHANGED <<positionCheckCount, degraded>>

\* One firing of positionCheckInterval with its counter: the timeout comes
\* when a firing without a position finds positionCheckCount >= maxPositionChecks.
PositionCheckCounted(raw, customData) ==
  LET position == collectNoonData(raw, customData).position
      seen == position.present /\ Truthy(position.latitude)
      expired == positionCheckCount + 1 >= maxPositionChecks
  IN  /\ waitForPosition(raw, customData, expired)
      /\ positionCheckCount' = positionCheckCount + 1
      /\ degraded' = (degraded \/ (~seen /\ expired))

\* plugin.stop(): clears the scheduler's and the tracker's timers and closes
\* the mailer and the database.  The timer of waitForPosition is a local of
\* that function and stays set; plugin.scheduler and plugin.mailer stay set.
Stop ==
  /\ started /\ ~stopped
  /\ stopped' = TRUE
  /\ scheduler' = IF scheduler = "running" THEN "stopped" ELSE scheduler
  /\ tracker' = FALSE
  /\ lastOp' = [op |-> "stop", ok |-> TRUE, raw |-> NoFix]
  /\ UNCHANGED <<now, config, started, waiting, positionCheckCount, degraded, mailer,
                 lastReportTime, firings, tables, cycle, textSeq, lastPosition>>

(***************************************************************************)
(* Voyage operations and the pending text (HTTP routes).  On a closed      *)
(* database the storage calls throw and the routes answer with an error.   *)
(***************************************************************************)
\* POST /api/resetVoyage -> storage.startNewVoyage(voyageName).
ResetVoyage(name) ==
  /\ started /\ ~stopped
  /\ voyageSeq < MaxVoyages
  /\ voyage_info' = startNewVoyage(name)
  /\ voyageSeq' = voyageSeq + 1
  /\ lastOp' = [op |-> "startNewVoyage", ok |-> TRUE, raw |-> NoFix]
  /\ UNCHANGED <<now, config, plugin, sched, logTables, cycle, textSeq, lastPosition>>

\* deleteVoyage without its test of is_active: the active voyage is deleted
\* like any other.
DeleteVoyage_NoActiveCheck(voyageId) ==
  /\ started /\ ~stopped
  /\ LET logIds == {e.id : e \in getLogsByVoyage(voyageId)}
     IN  /\ distance_log' = {d \in distance_log : d.log_id \notin logIds}
         /\ log_data' = {d \in log_data : d.log_id \notin logIds}
         /\ log_entries' = {e \in log_entries : e.id \notin logIds}
         /\ voyage_info' = {v \in voyage_info : v.id # voyageId}
         /\ lastOp' = [op |-> "deleteVoyage", ok |-> TRUE, raw |-> NoFix]
         /\ UNCHANGED <<voyageSeq, logSeq, dataSeq, distSeq>>
  /\ UNCHANGED <<now, config, plugin, sched, cycle, textSeq, lastPosition>>

\* DELETE /api/voyages/:id -> VoyageManager.deleteVoyage -> storage.deleteVoyage.
DeleteVoyage(voyageId) ==
  /\ started /\ ~stopped
  /\ IF \E v \in voyage_info : v.id = voyageId /\ v.is_active = 1
     THEN \* throw new Error('Cannot delete active voyage')
          /\ lastOp' = [op |-> "deleteVoyage", ok |-> FALSE, raw |-> NoFix]
          /\ UNCHANGED tables
     ELSE LET logIds == {e.id : e \in getLogsByVoyage(voyageId)}
          IN  /\ distance_log' = {d \in distance_log : d.log_id \notin logIds}
              /\ log_data' = {d \in log_data : d.log_id \notin logIds}
              /\ log_entries' = {e \in log_entries : e.id \notin logIds}
              /\ voyage_info' = {v \in voyage_info : v.id # voyageId}
              /\ lastOp' = [op |-> "deleteVoyage", ok |-> TRUE, raw |-> NoFix]
              /\ UNCHANGED <<voyageSeq, logSeq, dataSeq, distSeq>>
  /\ UNCHANGED <<now, config, plugin, sched, cycle, textSeq, lastPosition>>

\* PUT /api/voyages/:id/rename -> VoyageManager.renameVoyage -> storage.renameVoyage.
RenameVoyage(voyageId, newName) ==
  /\ started /\ ~stopped
  /\ IF newName = ""
     THEN \* validateVoyageName: 'Voyage name cannot be empty'
          /\ lastOp' = [op |-> "renameVoyage", ok |-> FALSE, raw |-> NoFix]
          /\ UNCHANGED tables
     ELSE /\ voyage_info' =
               {IF v.id = voyageId THEN [v EXCEPT !.voyage_name = newName] ELSE v :
                  v \in voyage_info}
          /\ lastOp' = [op |-> "renameVoyage", ok |-> TRUE, raw |-> NoFix]
          /\ UNCHANGED <<voyageSeq, logTables>>
  /\ UNCHANGED <<now, config, plugin, sched, cycle, textSeq, lastPosition>>

\* submitLog that persists the text at once, as an entry of its own.
SubmitLog_Persists(clear) ==
  /\ started
  /\ logSeq < MaxLogs
  /\ IF clear
     THEN /\ pendingLogText' = NULL
          /\ UNCHANGED textSeq
     ELSE /\ textSeq < MaxTexts
          /\ pendingLogText' = textSeq + 1
          /\ textSeq' = textSeq + 1
  /\ \E voyageId \in getActiveVoyage :
       log_entries' = log_entries \cup
         {createLogEntry(voyageId,
            [timestamp |-> now, latitude |-> NULL, longitude |-> NULL,
             logText |-> IF clear THEN NULL ELSE textSeq + 1, emailSent |-> FALSE,
             isAutoTrack |-> FALSE])}
  /\ logSeq' = logSeq + 1
  /\ lastOp' = [op |-> "submitLog", ok |-> TRUE, raw |-> NoFix]
  /\ UNCHANGED <<now, config, plugin, sched, voyage_info, voyageSeq, log_data, dataSeq,
                 distance_log, distSeq, inFlight, sendLog, markLog, lastPosition>>

\* POST /api/submitLog: a text, or nothing to clear the pending text.
SubmitLog(clear) ==
  /\ started
  /\ IF clear
     THEN /\ pendingLogText' = NULL
          /\ UNCHANGED textSeq
     ELSE /\ textSeq < MaxTexts
          /\ pendingLogText' = textSeq + 1
          /\ textSeq' = textSeq + 1
  /\ lastOp' = [op |-> "submitLog", ok |-> TRUE, raw |-> NoFix]
  /\ UNCHANGED <<now, config, plugin, sched, tables, inFlight, sendLog, markLog,
                 lastPosition>>

\* The clock advances by d seconds, up to `limit`.
Advance(d, limit) ==
  /\ now + d <= limit
  /\ now' = now + d
  /\ lastOp' = [op |-> "tick", ok |-> TRUE, raw |-> NoFix]
  /\ UNCHANGED <<config, plugin, sched, tables, cycle, textSeq, lastPosition>>

\* One second passes.
Tick == Advance(1, StartTime + MaxTicks)

(***************************************************************************)
(* The ledger specification: every handler, over a few seconds around the  *)
(* noon anchor.                                                            *)
(***************************************************************************)
Next ==
  \/ \E raw \in RawPositions, customData \in CustomDataSets : Start(raw, customData)
  \/ \E raw \in RawPositions, customData \in CustomDataSets, expired \in BOOLEAN :
       PositionCheck(raw, customData, expired)
  \/ \E raw \in RawPositions, customData \in CustomDataSets : Poll(raw, customData)
  \/ \E raw \in RawPositions, customData \in CustomDataSets : ManualTrigger(raw, customData)
  \/ \E raw \in RawPositions, customData \in CustomDataSets : SamplerTick(raw, customData)
  \/ \E logId \in inFlight, success \in BOOLEAN : EmailDone(logId, success)
  \/ \E name \in VoyageNames : ResetVoyage(name)
  \/ \E voyageId \in 1..(voyageSeq + 1) : DeleteVoyage(voyageId)
  \/ \E voyageId \in 1..(voyageSeq + 1), name \in VoyageNames : RenameVoyage(voyageId, name)
  \/ \E clear \in BOOLEAN : SubmitLog(clear)
  \/ Tick

Spec == Init /\ [][Next]_vars


(***************************************************************************)
(* The clock specification: the scheduler over two minutes around a full   *)
(* hour, for several configurations, host time zones and start times.      *)
(***************************************************************************)
ClockSpan == 120    \* seconds the clock advances in the clock specification

\* Seconds before the full hour at which a run starts.
ClockLead == REPORT_TRIGGER_WINDOW + 20

\* Steps of the clock between two events: with them a run visits the seconds
\* -80, -60, -40, -21, -20, -1, 0, 19, 20, 38, 39 and 40 around the full hour.
ClockSteps == {20, 59}

\* options and hostOffset of a run: interval in hours, first report time,
\* time zone mode, configured offset and host offset in hours.
ClockConfig(interval, first, mode, tz, host) ==
  <<[reportInterval |-> interval, firstReportTime |-> first, timezoneMode |-> mode,
     timezoneOffset |-> tz * SECONDS_PER_HOUR, positionTracking |-> FALSE, email |-> FALSE],
    host * SECONDS_PER_HOUR>>

ClockConfigs ==
  {ClockConfig(24, <<12, 0>>, "gps", 0, 0),
   ClockConfig(6, <<12, 0>>, "gps", 0, 0),
   ClockConfig(1, <<0, 0>>, "gps", 0, -8),
   ClockConfig(0, <<12, 0>>, "gps", 0, 0),
   ClockConfig(24, <<25, 0>>, "gps", 0, 0),
   ClockConfig(24, <<12, 0>>, "fixed", 0, 0),
   ClockConfig(24, <<12, 0>>, "fixed", 5, 5),
   ClockConfig(24, <<12, 0>>, "fixed", 5, 0)}

\* Start times: shortly before 07:00, 12:00, 13:00, 18:00 and 24:00 UTC of
\* day 0 and before 00:00 UTC of day 4 (12:00 of day 0 plus 3.5 days).
ClockStarts ==
  {h * SECONDS_PER_HOUR - ClockLead : h \in {7, 12, 13, 18, 24, 96}}

InitClock ==
  /\ now \in ClockStarts
  /\ \E c \in ClockConfigs : options = c[1] /\ hostOffset = c[2]
  /\ faults = {}
  /\ calc = NoCalc
  /\ conversion = NoConversion
  /\ timeCall = NoTimeCall
  /\ NoStorageFile
  /\ InitPlugin

\* The end of the run that started at one of ClockStarts.
ClockEnd == CHOOSE t \in {s + ClockSpan : s \in ClockStarts} : t - ClockSpan <= now /\ now <= t

NextClock ==
  \/ \E raw \in {NoFix, Fix(UnitsPerDegree, UnitsPerDegree)} : Start(raw, <<>>)
  \/ \E raw \in {NoFix, Fix(UnitsPerDegree, UnitsPerDegree)}, expired \in BOOLEAN :
       PositionCheck(raw, <<>>, expired)
  \/ \E raw \in {NoFix, Fix(UnitsPerDegree, UnitsPerDegree)} : Poll(raw, <<>>)
  \/ ManualTrigger(NoFix, <<>>)
  \/ \E d \in ClockSteps : Advance(d, ClockEnd)

SpecClock == InitClock /\ [][NextClock]_vars

(***************************************************************************)
(* The distance specification: haversineDistance on its own, for every     *)
(* pair of points of a grid around the origin, measured in both directions.*)
(***************************************************************************)
\* The coordinates of the grid, in units of 1/UnitsPerDegree degree: one unit
\* and whole degrees either side of the equator and of the prime meridian.
DistanceCoords == {-UnitsPerDegree, 0, 1, UnitsPerDegree, 2 * UnitsPerDegree}

InitDistance ==
  /\ now = StartTime
  /\ options \in LedgerOptions
  /\ hostOffset = 0
  /\ faults = {}
  /\ calc \in [lat1 : DistanceCoords, lon1 : DistanceCoords, lat2 : DistanceCoords,
               lon2 : DistanceCoords, there : {NULL}, back : {NULL}]
  /\ conversion = NoConversion
  /\ timeCall = NoTimeCall
  /\ NoStorageFile
  /\ InitPlugin

\* haversineDistance(lat1, lon1, lat2, lon2)
MeasureThere ==
  /\ calc.there = NULL
  /\ calc' = [calc EXCEPT !.there = haversineDistance(calc.lat1, calc.lon1, calc.lat2, calc.lon2)]
  /\ UNCHANGED <<now, options, hostOffset, faults, timeCall, conversion, debounced, disk, saveTimeout,
                 savePending, plugin, sched, tables, cycle, textSeq, lastPosition, lastOp>>

\* haversineDistance(lat2, lon2, lat1, lon1)
MeasureBack ==
  /\ calc.back = NULL
  /\ calc' = [calc EXCEPT !.back = haversineDistance(calc.lat2, calc.lon2, calc.lat1, calc.lon1)]
  /\ UNCHANGED <<now, options, hostOffset, faults, timeCall, conversion, debounced, disk, saveTimeout,
                 savePending, plugin, sched, tables, cycle, textSeq, lastPosition, lastOp>>

NextDistance == MeasureThere \/ MeasureBack

SpecDistance == InitDistance /\ [][NextDistance]_vars

(***************************************************************************)
(* The track specification: the sampler and manual reports only, without   *)
(* email, over one more row of log_entries than the ledger specification.  *)
(***************************************************************************)
\* The values of the position path in the track specification.
TrackPositions ==
  {Fix(UnitsPerDegree, UnitsPerDegree), Fix(2 * UnitsPerDegree, UnitsPerDegree),
   Fix(UnitsPerDegree, NULL)}

InitTrack ==
  /\ now = StartTime
  /\ options \in {o \in LedgerOptions : ~o.email}
  /\ hostOffset = 0
  /\ faults = {}
  /\ calc = NoCalc
  /\ conversion = NoConversion
  /\ timeCall = NoTimeCall
  /\ NoStorageFile
  /\ InitPlugin

NextTrack ==
  \/ \E raw \in TrackPositions, customData \in CustomDataSets : Start(raw, customData)
  \/ \E raw \in TrackPositions, customData \in CustomDataSets, expired \in BOOLEAN :
       PositionCheck(raw, customData, expired)
  \/ \E raw \in TrackPositions, customData \in CustomDataSets :
       ManualTriggerUpTo(MaxTrackLogs, raw, customData)
  \/ \E raw \in TrackPositions, customData \in CustomDataSets :
       SamplerTickUpTo(MaxTrackLogs, raw, customData)
  \/ Tick

SpecTrack == InitTrack /\ [][NextTrack]_vars

(***************************************************************************)
(* The wait specification: start, the counted position checks and the      *)
(* scheduler's polls, with the timer of waitForPosition firing as long as  *)
(* it is set.                                                              *)
(***************************************************************************)
\* The values of the position path in the wait specification.
WaitPositions ==
  {NoFix, Fix(UnitsPerDegree, UnitsPerDegree), Fix(0, 0), Fix(UnitsPerDegree, NULL)}

InitWait ==
  /\ now = StartTime
  /\ options \in LedgerOptions
  /\ hostOffset = 0
  /\ faults = {}
  /\ calc = NoCalc
  /\ conversion = NoConversion
  /\ timeCall = NoTimeCall
  /\ NoStorageFile
  /\ InitPlugin

PositionCheckTimer ==
  \E raw \in WaitPositions, customData \in CustomDataSets : PositionCheckCounted(raw, customData)

NextWait ==
  \/ \E raw \in WaitPositions, customData \in CustomDataSets : Start(raw, customData)
  \/ PositionCheckTimer
  \/ \E raw \in WaitPositions, customData \in CustomDataSets : Poll(raw, customData)
  \/ \E logId \in inFlight, success \in BOOLEAN : EmailDone(logId, success)
  \/ Tick

\* setInterval fires its callback again and again until clearInterval.
SpecWait == InitWait /\ [][NextWait]_vars /\ WF_vars(PositionCheckTimer)

(***************************************************************************)
(* The storage specification: LogStorage on its own, with its database     *)
(* file, for the storage that saves at once (lib/data/storage) and for the *)
(* one that delays its saves by five seconds (lib/storage.js).             *)
(***************************************************************************)
\* db.export(): the content of the four tables.  The tables lib/storage.js
\* creates have no columns voyage_id and is_auto_track in log_entries.
FileImage ==
  [written |-> TRUE, outdated |-> debounced, voyage_info |-> voyage_info,
   log_entries |-> log_entries, log_data |-> log_data, distance_log |-> distance_log]

\* saveDatabase(): the timer is cleared and the tables, as the calling
\* operation leaves them, are written to the file.
saveDatabase ==
  /\ saveTimeout' = FALSE
  /\ disk' = FileImage'
  /\ savePending' = FALSE

\* debouncedSave(): the change is pending and the timer is set anew.
debouncedSave ==
  /\ savePending' = TRUE
  /\ saveTimeout' = TRUE
  /\ UNCHANGED disk

\* The save at the end of a storage operation: delayed where lib/storage.js
\* calls debouncedSave, at once otherwise.
Save(delayed) == IF debounced /\ delayed THEN debouncedSave ELSE saveDatabase

\* What no storage operation touches.
outsideStorage ==
  <<now, options, hostOffset, faults, calc, timeCall, conversion, debounced, waiting, positionCheckCount, degraded,
    tracker, mailer, sched, cycle, textSeq, lastPosition>>

\* LogStorage.init() on a system without a database file.
LogStorageInit ==
  /\ ~started
  /\ UNCHANGED <<outsideStorage, stopped>>
  /\ started' = TRUE
  /\ UNCHANGED tables
  /\ saveDatabase
  /\ lastOp' = [op |-> "init", ok |-> TRUE, raw |-> NoFix]

\* LogStorage.startNewVoyage(name)
LogStorageStartNewVoyage(name) ==
  /\ started /\ ~stopped
  /\ UNCHANGED <<outsideStorage, started, stopped>>
  /\ voyageSeq < MaxVoyages
  /\ voyage_info' = startNewVoyage(name)
  /\ voyageSeq' = voyageSeq + 1
  /\ UNCHANGED logTables
  /\ Save(FALSE)
  /\ lastOp' = [op |-> "startNewVoyage", ok |-> TRUE, raw |-> NoFix]

\* LogStorage.createLogEntry(data)
LogStorageCreateLogEntry(raw) ==
  /\ started /\ ~stopped
  /\ UNCHANGED <<outsideStorage, started, stopped>>
  /\ logSeq < MaxLogs
  /\ \E voyageId \in getActiveVoyage :
       log_entries' = log_entries \cup
         {createLogEntry(voyageId,
            [timestamp |-> now, latitude |-> raw.latitude, longitude |-> raw.longitude,
             logText |-> pendingLogText, emailSent |-> FALSE, isAutoTrack |-> FALSE])}
  /\ logSeq' = logSeq + 1
  /\ UNCHANGED <<voyage_info, voyageSeq, log_data, dataSeq, distance_log, distSeq>>
  /\ Save(TRUE)
  /\ lastOp' = [op |-> "createLogEntry", ok |-> TRUE, raw |-> NoFix]

\* LogStorage.markEmailSent(logId)
LogStorageMarkEmailSent(logId) ==
  /\ started /\ ~stopped
  /\ UNCHANGED <<outsideStorage, started, stopped>>
  /\ log_entries' = markEmailSent(logId)
  /\ UNCHANGED <<voyage_info, voyageSeq, logSeq, log_data, dataSeq, distance_log, distSeq>>
  /\ Save(TRUE)
  /\ lastOp' = [op |-> "markEmailSent", ok |-> TRUE, raw |-> NoFix]

\* The timer debouncedSave set fires: saveDatabase().  On a closed database
\* db.export() throws after the timer field is cleared, and the error is
\* caught and reported.
SaveTimer ==
  /\ saveTimeout
  /\ UNCHANGED <<outsideStorage, started, stopped>>
  /\ UNCHANGED tables
  /\ IF stopped
     THEN saveTimeout' = FALSE /\ UNCHANGED <<disk, savePending>>
     ELSE saveDatabase
  /\ lastOp' = [op |-> "saveTimeout", ok |-> ~stopped, raw |-> NoFix]

\* close() that only closes the database handle.
LogStorageClose_HandleOnly ==
  /\ started /\ ~stopped
  /\ UNCHANGED <<outsideStorage, started>>
  /\ stopped' = TRUE
  /\ UNCHANGED tables
  /\ UNCHANGED <<disk, saveTimeout, savePending>>
  /\ lastOp' = [op |-> "close", ok |-> TRUE, raw |-> NoFix]

\* LogStorage.close(): lib/storage.js clears the timer and saves what is
\* pending before db.close(); lib/data/storage, which has saved every change
\* already, only closes the handle.
LogStorageClose ==
  /\ started /\ ~stopped
  /\ UNCHANGED <<outsideStorage, started>>
  /\ stopped' = TRUE
  /\ UNCHANGED tables
  /\ IF debounced
     THEN IF savePending
          THEN saveDatabase
          ELSE saveTimeout' = FALSE /\ UNCHANGED <<disk, savePending>>
     ELSE UNCHANGED <<disk, saveTimeout, savePending>>
  /\ lastOp' = [op |-> IF debounced /\ savePending THEN "close.saveDatabase" ELSE "close",
                ok |-> TRUE, raw |-> NoFix]

\* The values of the position path in the storage specification.
StoragePositions ==
  {Fix(UnitsPerDegree, UnitsPerDegree), Fix(2 * UnitsPerDegree, UnitsPerDegree)}

InitStorage ==
  /\ now = StartTime
  /\ options \in {o \in LedgerOptions : ~o.email}
  /\ hostOffset = 0
  /\ faults = {}
  /\ calc = NoCalc
  /\ conversion = NoConversion
  /\ timeCall = NoTimeCall
  /\ debounced \in BOOLEAN
  /\ disk = NoFile
  /\ saveTimeout = FALSE
  /\ savePending = FALSE
  /\ InitPlugin

NextStorage ==
  \/ LogStorageInit
  \/ \E name \in VoyageNames : LogStorageStartNewVoyage(name)
  \/ \E raw \in StoragePositions : LogStorageCreateLogEntry(raw)
  \/ \E logId \in 1..MaxLogs : LogStorageMarkEmailSent(logId)
  \/ SaveTimer
  \/ LogStorageClose

SpecStorage == InitStorage /\ [][NextStorage]_vars

(***************************************************************************)
(* The restart specification: the storage specification with the plugin    *)
(* started again on the database file the stopped plugin left, by the same *)
(* storage module or, after an upgrade from lib/storage.js, by             *)
(* lib/data/storage.                                                       *)
(***************************************************************************)
\* A new LogStorage and its init() on the existing file: the file is read,
\* lib/data/storage drops log_entries, log_data and distance_log (and with
\* them their AUTOINCREMENT counters) when log_entries lacks the column
\* voyage_id or is_auto_track, the missing tables are created and the
\* database is saved.
LogStorageRestart(upgrade) ==
  /\ started /\ stopped
  /\ disk.written
  /\ upgrade => debounced
  /\ debounced' = (debounced /\ ~upgrade)
  /\ stopped' = FALSE
  /\ voyage_info' = disk.voyage_info
  /\ IF ~debounced' /\ disk.outdated
     THEN /\ log_entries' = {} /\ log_data' = {} /\ distance_log' = {}
          /\ logSeq' = 0 /\ dataSeq' = 0 /\ distSeq' = 0
     ELSE /\ log_entries' = disk.log_entries
          /\ log_data' = disk.log_data
          /\ distance_log' = disk.distance_log
          /\ UNCHANGED <<logSeq, dataSeq, distSeq>>
  /\ UNCHANGED voyageSeq
  /\ saveDatabase
  /\ lastOp' = [op |-> "init.restart", ok |-> TRUE, raw |-> NoFix]
  /\ UNCHANGED <<now, options, hostOffset, faults, calc, timeCall, conversion, started, waiting,
                 positionCheckCount, degraded, tracker, mailer, sched, cycle, textSeq,
                 lastPosition>>

NextRestart ==
  \/ NextStorage
  \/ \E upgrade \in BOOLEAN : LogStorageRestart(upgrade)

SpecRestart == InitStorage /\ [][NextRestart]_vars

(***************************************************************************)
(* The parse specification: parseTime on its own, for every string of up   *)
(* to MaxTimeLen characters.                                               *)
(***************************************************************************)
TimeStrings == UNION {[1..n -> TimeChars] : n \in 0..MaxTimeLen}

InitParse ==
  /\ now = StartTime
  /\ options \in {o \in LedgerOptions : ~o.email}
  /\ hostOffset = 0
  /\ faults = {}
  /\ calc = NoCalc
  /\ conversion = NoConversion
  /\ timeCall \in [timeStr : TimeStrings, done : {FALSE}, hours : {NULL}, minutes : {NULL},
                   reported : {FALSE}]
  /\ NoStorageFile
  /\ InitPlugin

\* parseTime(timeStr)
ParseTime ==
  /\ ~timeCall.done
  /\ LET result == parseTimeString(timeCall.timeStr)
     IN  timeCall' = [timeStr |-> timeCall.timeStr, done |-> TRUE, hours |-> result.hours,
                      minutes |-> result.minutes, reported |-> result.reported]
  /\ UNCHANGED <<now, options, hostOffset, faults, calc, conversion, debounced, disk, saveTimeout,
                 savePending, plugin, sched, tables, cycle, textSeq, lastPosition, lastOp>>

NextParse == ParseTime

SpecParse == InitParse /\ [][NextParse]_vars

(***************************************************************************)
(* The send specification: an hourly report with email, over the hour from *)
(* one due instant to the next, with sends that may never complete and     *)
(* with free texts submitted at any time.                                  *)
(***************************************************************************)
\* The values of the position path in the send specification.
SendPositions ==
  {Fix(UnitsPerDegree, UnitsPerDegree), Fix(2 * UnitsPerDegree, UnitsPerDegree)}

InitSend ==
  /\ now = StartTime
  /\ options = [reportInterval |-> 1, firstReportTime |-> <<12, 0>>, timezoneMode |-> "gps",
                timezoneOffset |-> 0, positionTracking |-> TRUE, email |-> TRUE]
  /\ hostOffset = 0
  /\ faults = {}
  /\ calc = NoCalc
  /\ conversion = NoConversion
  /\ timeCall = NoTimeCall
  /\ NoStorageFile
  /\ InitPlugin

NextSend ==
  \/ \E raw \in SendPositions, customData \in CustomDataSets : Start(raw, customData)
  \/ \E raw \in SendPositions, customData \in CustomDataSets, expired \in BOOLEAN :
       PositionCheck(raw, customData, expired)
  \/ \E raw \in SendPositions, customData \in CustomDataSets :
       PollUpTo(MaxTrackLogs, MaxSends, raw, customData)
  \/ \E raw \in SendPositions, customData \in CustomDataSets :
       SamplerTickUpTo(MaxTrackLogs, raw, customData)
  \/ \E logId \in inFlight, success \in BOOLEAN : EmailDone(logId, success)
  \/ \E clear \in BOOLEAN : SubmitLog(clear)
  \/ Tick
  \/ Advance(SECONDS_PER_HOUR, StartTime + SECONDS_PER_HOUR + MaxTicks)

SpecSend == InitSend /\ [][NextSend]_vars

(***************************************************************************)
(* The conversion specification: convertValueWithUnit on its own, for raw  *)
(* values around zero, half a turn and a full turn either side.            *)
(***************************************************************************)
\* Raw values in thousandths (milliradians on an angle path): none, zero,
\* one thousandth, and the values next to pi and 2 * pi, of either sign.
RawValues ==
  {NULL} \cup {0} \cup {s * v : s \in {-1, 1}, v \in {1, MaxTurn * 3141, MaxTurn * 3142}}
         \cup {s * v : s \in {-1, 1}, v \in {2 * MaxTurn * 3141, 2 * MaxTurn * 3142}}

InitConvert ==
  /\ now = StartTime
  /\ options \in {o \in LedgerOptions : ~o.email}
  /\ hostOffset = 0
  /\ faults = {}
  /\ calc = NoCalc
  /\ conversion \in [value : RawValues, path : SUBSET PathWords, useMetric : BOOLEAN,
                     done : {FALSE}, result : {NULL}, unit : {""}]
  /\ timeCall = NoTimeCall
  /\ NoStorageFile
  /\ InitPlugin

\* convertValueWithUnit(value, path)
ConvertValue ==
  /\ ~conversion.done
  /\ LET converted == convertValueWithUnit(conversion.value, conversion.path,
                                           conversion.useMetric)
     IN  conversion' = [conversion EXCEPT !.done = TRUE, !.result = converted.value,
                                          !.unit = converted.unit]
  /\ UNCHANGED <<now, options, hostOffset, faults, calc, timeCall, debounced, disk,
                 saveTimeout, savePending, plugin, sched, tables, cycle, textSeq,
                 lastPosition, lastOp>>

NextConvert == ConvertValue

SpecConvert == InitConvert /\ [][NextConvert]_vars

(***************************************************************************)
(* The poll specification: a daily report at 12:00 GPS time with the       *)
(* scheduler's timer firing exactly every CHECK_INTERVAL seconds, for      *)
(* several phases of the timer relative to the due instant.                *)
(***************************************************************************)
\* The due instant of the run: 12:00 UTC of day 0.
PollDue == 12 * SECONDS_PER_HOUR

\* Seconds by which the polls come after a whole number of check intervals
\* before the due instant.
PollPhases == 0..(CHECK_INTERVAL - 1)

\* The scheduler is started MaxPollLead check intervals before the due
\* instant, plus the phase.
PollStarts == {PollDue - MaxPollLead * CHECK_INTERVAL + phase : phase \in PollPhases}

InitPoll ==
  /\ now \in PollStarts
  /\ options = [reportInterval |-> 24, firstReportTime |-> <<12, 0>>, timezoneMode |-> "gps",
                timezoneOffset |-> 0, positionTracking |-> FALSE, email |-> FALSE]
  /\ hostOffset = 0
  /\ faults = {}
  /\ calc = NoCalc
  /\ conversion = NoConversion
  /\ timeCall = NoTimeCall
  /\ NoStorageFile
  /\ InitPlugin

\* The timer of setInterval: its callback runs when CHECK_INTERVAL seconds
\* have passed since the scheduler's last check.
PollTimer ==
  /\ lastOp.op = "tick"
  /\ \E raw \in {NoFix, Fix(UnitsPerDegree, UnitsPerDegree)}, customData \in CustomDataSets :
       Poll(raw, customData)

\* CHECK_INTERVAL seconds pass after a check of the running scheduler.
PollWait ==
  /\ scheduler = "running"
  /\ lastOp.op # "tick"
  /\ Advance(CHECK_INTERVAL, PollDue + 2 * CHECK_INTERVAL)

NextPoll ==
  \/ \E raw \in {NoFix, Fix(UnitsPerDegree, UnitsPerDegree)}, customData \in CustomDataSets :
       Start(raw, customData)
  \/ \E raw \in {NoFix, Fix(UnitsPerDegree, UnitsPerDegree)}, customData \in CustomDataSets,
        expired \in BOOLEAN :
       PositionCheck(raw, customData, expired)
  \/ PollTimer
  \/ PollWait

SpecPoll == InitPoll /\ [][NextPoll]_vars

(***************************************************************************)
(* The lifecycle specification: the report cycle and the timers with       *)
(* failing storage calls, a throwing mailer and plugin.stop(), without the *)
(* voyage operations.                                                      *)
(***************************************************************************)
\* The calls that can throw in the lifecycle specification.
LifecycleFaults == StorageFailures \cup {"sendNoonLog"}

\* The values of the position path in the lifecycle specification.
LifecyclePositions ==
  {NoFix, Fix(UnitsPerDegree, UnitsPerDegree), Fix(2 * UnitsPerDegree, UnitsPerDegree)}

InitLifecycle ==
  /\ now = StartTime
  /\ options \in LedgerOptions
  /\ hostOffset = 0
  /\ faults = LifecycleFaults
  /\ calc = NoCalc
  /\ conversion = NoConversion
  /\ timeCall = NoTimeCall
  /\ NoStorageFile
  /\ InitPlugin

NextLifecycle ==
  \/ \E raw \in LifecyclePositions, customData \in CustomDataSets : Start(raw, customData)
  \/ \E raw \in LifecyclePositions, customData \in CustomDataSets, expired \in BOOLEAN :
       PositionCheck(raw, customData, expired)
  \/ \E raw \in LifecyclePositions, customData \in CustomDataSets : Poll(raw, customData)
  \/ \E raw \in LifecyclePositions, customData \in CustomDataSets :
       ManualTrigger(raw, customData)
  \/ \E raw \in LifecyclePositions, customData \in CustomDataSets :
       SamplerTick(raw, customData)
  \/ \E logId \in inFlight, success \in BOOLEAN : EmailDone(logId, success)
  \/ \E logId \in inFlight : EmailThrows(logId)
  \/ \E clear \in BOOLEAN : SubmitLog(clear)
  \/ Stop
  \/ Tick

SpecLifecycle == InitLifecycle /\ [][NextLifecycle]_vars

(***************************************************************************)
(* The sampler specification: the position tracker on its own, with a      *)
(* createLogEntry that may throw.                                          *)
(***************************************************************************)
InitSampler ==
  /\ now = StartTime
  /\ options \in {o \in LedgerOptions : ~o.email}
  /\ hostOffset = 0
  /\ faults = {TrackerFailure}
  /\ calc = NoCalc
  /\ conversion = NoConversion
  /\ timeCall = NoTimeCall
  /\ NoStorageFile
  /\ InitPlugin

NextSampler ==
  \/ \E raw \in LifecyclePositions, customData \in CustomDataSets : Start(raw, customData)
  \/ \E raw \in LifecyclePositions, customData \in CustomDataSets :
       SamplerTickUpTo(MaxTrackLogs, raw, customData)
  \/ Tick

SpecSampler == InitSampler /\ [][NextSampler]_vars

(***************************************************************************)
(* Properties of the voyage ledger.                                        *)
(***************************************************************************)
\* C1: once start() has run storage init and the first-voyage check, every
\* reachable state, after any sequence of voyage resets, deletions, renames,
\* report cycles and sampler ticks, has exactly one voyage with is_active = 1.
C1_ExactlyOneActive == started => Cardinality(ActiveVoyages) = 1

\* A second voyage has been started, the first (inactive) one has just been
\* deleted, and entries have been written.
C1_Witness ==
  /\ started
  /\ voyageSeq >= 2
  /\ Cardinality(voyage_info) = 1
  /\ log_entries # {}
  /\ lastOp = [op |-> "deleteVoyage", ok |-> TRUE, raw |-> NoFix]

\* Entries appended since the active voyage was started: createLogEntry
\* stamps each entry with the id of the voyage that is active at that moment.
EntriesOfActiveVoyage == {e \in log_entries : e.voyage_id \in getActiveVoyage}

\* The distance records of a set of entries.
RecordsOf(entries) == {d \in distance_log : \E e \in entries : d.log_id = e.id}

\* A raw position with both coordinates.
Complete(raw) == raw.object /\ raw.latitude # NULL /\ raw.longitude # NULL

\* C2: after startNewVoyage() has completed, the next distance-since-last
\* that is computed, for whatever (complete) position, is 0, regardless of
\* the entries and the accumulated distance of the previous voyage.
C2_NextDistanceIsZero ==
  [][(distSeq' = distSeq + 1 /\ EntriesOfActiveVoyage = {} /\ Complete(lastOp'.raw))
       => \A d \in distance_log' \ distance_log : d.distance_since_last = 0]_vars

\* C3: after startNewVoyage() has completed and before any new entry is
\* appended, getVoyageDistance() returns 0, whatever the previous voyage
\* holds and whenever the reset happened relative to its entries.
C3_TotalZeroAfterReset ==
  (started /\ EntriesOfActiveVoyage = {}) => getVoyageDistance = 0

\* C4: for the N position-bearing entries appended to the active voyage by
\* report cycles and sampler ticks, each has its distance-since-last value,
\* getVoyageDistance() equals the sum of the N values, and each stored
\* total_distance equals the running sum at the moment its entry was created.
C4_TotalIsRunningSum ==
  LET entries == {e \in EntriesOfActiveVoyage : e.latitude # NULL}
      records == RecordsOf(entries)
  IN  started =>
        /\ \A e \in entries : RecordsOf({e}) # {}
        /\ getVoyageDistance = SumOver(records, [d \in records |-> d.distance_since_last])
        /\ \A d \in records :
              LET upTo == {c \in records : c.log_id <= d.log_id}
              IN  d.total_distance = SumOver(upTo, [c \in upTo |-> c.distance_since_last])

\* C5: every persisted log entry that has a position, written by a report
\* cycle or by the position sampler, has exactly one distance record, and no
\* entry has more than one.
C5_OneDistanceRecordPerEntry ==
  \A e \in log_entries :
    /\ Cardinality(RecordsOf({e})) <= 1
    /\ e.latitude # NULL => Cardinality(RecordsOf({e})) = 1

\* C6: while the same voyage stays active, getVoyageDistance() never
\* decreases, whichever handler runs: report cycles, sampler ticks, renames
\* and deletions of inactive voyages; only startNewVoyage, which changes the
\* active voyage, can bring it back to 0.
C6_MonotonicWithinVoyage ==
  [][(started /\ getActiveVoyage' = getActiveVoyage)
       => getVoyageDistance' >= getVoyageDistance]_vars

\* The active voyage has a distance above 0 and an inactive voyage that held
\* an entry has just been deleted with that entry.
C6_Witness ==
  /\ lastOp = [op |-> "deleteVoyage", ok |-> TRUE, raw |-> NoFix]
  /\ getVoyageDistance > 0
  /\ Cardinality(voyage_info) < voyageSeq
  /\ Cardinality(log_entries) < logSeq

(***************************************************************************)
(* Properties of the report cycle.                                         *)
(***************************************************************************)
\* A raw position that yields no position: no object, or no coordinate.
HasNoPosition(raw) == ~raw.object \/ (raw.latitude = NULL /\ raw.longitude = NULL)

\* A raw position with exactly one of latitude and longitude.
Incomplete(raw) == raw.object /\ ((raw.latitude = NULL) # (raw.longitude = NULL))

\* C9: a report cycle whose snapshot has no position creates no log entry,
\* no readings and no distance record, does not call markEmailSent, sends no
\* email and leaves the pending free text as it was.
C9_NoPositionNoEffect ==
  [][(lastOp'.op = "handleNoonReport" /\ HasNoPosition(lastOp'.raw))
       => UNCHANGED <<tables, pendingLogText, inFlight, sendLog, markLog>>]_vars

\* A report cycle that found no position has just ended, with a mailer
\* configured, a free text pending and an earlier entry in the log.
C9_Witness ==
  /\ lastOp.op = "handleNoonReport"
  /\ HasNoPosition(lastOp.raw)
  /\ mailer
  /\ pendingLogText # NULL
  /\ log_entries # {}

\* C10: a report cycle whose position is incomplete (exactly one of latitude
\* and longitude) aborts and persists nothing: no log entry, no readings and
\* no distance record.
C10_IncompleteAborts ==
  [][(lastOp'.op = "handleNoonReport" /\ Incomplete(lastOp'.raw))
       => (~lastOp'.ok /\ UNCHANGED logTables)]_vars

(***************************************************************************)
(* Properties of the report clock.                                         *)
(***************************************************************************)
\* The offset from UTC of the configured time reference: UTC in GPS mode,
\* options.timezoneOffset in fixed mode.
ConfiguredOffset == IF options.timezoneMode = "gps" THEN 0 ELSE options.timezoneOffset

\* C7: getNextReportTime returns anchor + k * interval for the smallest k >= 0
\* for which that instant is strictly after now, where anchor is today's
\* anchor time of day in the configured time reference.
C7_SmallestInstantAfterNow ==
  LET interval == (IF Truthy(options.reportInterval) THEN options.reportInterval
                   ELSE DEFAULT_REPORT_INTERVAL_HOURS) * SECONDS_PER_HOUR
      parsed == parseTime(options.firstReportTime)
      anchor == SetHours(now, ConfiguredOffset, parsed.hours, parsed.minutes)
  IN  \E k \in 0..(SECONDS_PER_DAY \div interval) :
        /\ getNextReportTime = anchor + k * interval
        /\ anchor + k * interval > now
        /\ \A j \in 0..(k - 1) : anchor + j * interval <= now

\* C8: over the polls of a scheduler, the callback is invoked at most once
\* among the polls that fall in the 60-second trigger window around one due
\* instant, and a firing sets lastReportTime to the due instant, not to the
\* time of the poll.
C8_OncePerWindow ==
  [][Len(firings') > Len(firings)
       => /\ lastReportTime' = getNextReportTime
          /\ \A i \in 1..Len(firings) :
                Abs(now - firings[i].due) >= REPORT_TRIGGER_WINDOW]_vars

\* A poll fired before its due instant, and a later poll in the window of
\* the same due instant has just returned without firing.
C8_Witness ==
  /\ lastOp = [op |-> "checkForScheduledReport", ok |-> FALSE, raw |-> NoFix]
  /\ Len(firings) = 1
  /\ firings[1].at < now
  /\ now < firings[1].due
  /\ firings[1].due - firings[1].at < REPORT_TRIGGER_WINDOW
  /\ lastReportTime = firings[1].due

(***************************************************************************)
(* Properties of the position snapshot.                                    *)
(***************************************************************************)
\* C11: a snapshot with both coordinates is a fix whatever their values, 0
\* included: the report cycle treats the position as available and persists
\* an entry, and the first report of an empty log stores distance-since-last
\* 0 and total 0.
C11_ZeroIsAFix ==
  [][(lastOp'.op = "handleNoonReport" /\ Complete(lastOp'.raw))
       => /\ lastOp'.ok
          /\ logSeq' = logSeq + 1
          /\ log_entries = {} =>
               \A d \in distance_log' \ distance_log :
                 d.distance_since_last = 0 /\ d.total_distance = 0]_vars

(***************************************************************************)
(* Properties of the report cycle under failures and stop.                 *)
(***************************************************************************)
\* C12: a report cycle sets the pending text to none only after it has
\* persisted its entry with its readings and its distance record; a cycle
\* that ends in its catch block, because createLogEntry, addLogData or
\* addDistanceData threw, leaves the pending text as submitted.
C12_TextClearedAfterPersist ==
  [][/\ lastOp'.op = "handleNoonReport.catch" => pendingLogText' = pendingLogText
     /\ (lastOp'.op \in {"handleNoonReport", "sendEmail"} /\ pendingLogText' # pendingLogText)
          => /\ pendingLogText' = NULL
             /\ IF lastOp'.op = "handleNoonReport"
                THEN /\ logSeq' = logSeq + 1
                     /\ \E e \in log_entries' : e.id = logSeq' /\ e.log_text = pendingLogText
                     /\ \E r \in log_data' : r.log_id = logSeq'
                     /\ \E d \in distance_log' : d.log_id = logSeq'
                ELSE \A id \in inFlight \ inFlight' : id <= logSeq]_vars

\* A cycle has just ended in its catch block after createLogEntry had
\* succeeded and a later storage call threw: the entry carries the pending
\* text, has no distance record, and the text is still pending.
C12_Witness ==
  /\ lastOp.op = "handleNoonReport.catch"
  /\ pendingLogText # NULL
  /\ \E e \in log_entries :
       /\ e.log_text = pendingLogText
       /\ \A d \in distance_log : d.log_id # e.id

\* C13: with a mailer, a cycle that persisted its entry attempts the send of
\* that entry once and no send is ever attempted for an entry a second time;
\* email_sent of an entry turns 1 only in the step in which the send of that
\* entry returned success; after a send that returned failure the entries are
\* as they were, the entry still there with email_sent = 0.
C13_SendOnceMarkOnSuccess ==
  [][/\ (lastOp'.op = "handleNoonReport" /\ lastOp'.ok /\ mailer)
          => sendLog' = Append(sendLog, logSeq')
     /\ sendLog' # sendLog
          => /\ sendLog' = Append(sendLog, logSeq')
             /\ logSeq' = logSeq + 1
             /\ \A i \in 1..Len(sendLog) : sendLog[i] # logSeq'
     /\ \A e \in log_entries' :
          (e.email_sent = 1 /\ \E o \in log_entries : o.id = e.id /\ o.email_sent = 0)
            => /\ lastOp'.op = "sendEmail" /\ lastOp'.ok
               /\ e.id \in inFlight \ inFlight'
     /\ (lastOp'.op = "sendEmail" /\ ~lastOp'.ok)
          => /\ log_entries' = log_entries
             /\ \A id \in inFlight \ inFlight' :
                  \E e \in log_entries' : e.id = id /\ e.email_sent = 0]_vars

\* A send failed, its entry is still there unsent, and a later cycle has made
\* its own send.
C13_Witness ==
  /\ Len(sendLog) = 2
  /\ sendLog[1] \notin inFlight
  /\ \E e \in log_entries : e.id = sendLog[1] /\ e.email_sent = 0
  /\ sendLog[2] # sendLog[1]

\* C14: once plugin.stop() has returned, no step starts a report cycle (no
\* call of handleNoonReport, from the startup wait, the scheduler timer or a
\* manual trigger) and no step is a sampler tick; the steps that finish a
\* cycle already waiting on its send are not constrained.
C14_NothingStartsAfterStop ==
  [][stopped
       => /\ ~\E raw \in LifecyclePositions, customData \in CustomDataSets :
                handleNoonReport(raw, customData)
          /\ ~\E raw \in LifecyclePositions, customData \in CustomDataSets :
                SamplerTick(raw, customData)]_vars

(***************************************************************************)
(* Properties of the voyage operations.                                    *)
(***************************************************************************)
\* C15: deleteVoyage(v) with v the active voyage is answered with an error
\* and leaves every table as it was: the voyage row, the entries, the
\* readings and the distance records.
C15_DeleteActiveRejected ==
  [][\A voyageId \in 1..(MaxVoyages + 1) :
       (voyageId \in getActiveVoyage /\ DeleteVoyage(voyageId))
         => /\ lastOp' = [op |-> "deleteVoyage", ok |-> FALSE, raw |-> NoFix]
            /\ UNCHANGED tables]_vars

\* A deleteVoyage was rejected while the active voyage had an entry with a
\* reading and a distance record.
C15_Witness ==
  /\ lastOp.op = "deleteVoyage" /\ ~lastOp.ok
  /\ \E e \in EntriesOfActiveVoyage :
       /\ \E r \in log_data : r.log_id = e.id
       /\ \E d \in distance_log : d.log_id = e.id

\* The entries created while voyage `voyageId` was the active one.
EntriesCreatedUnder(voyageId) == {e \in log_entries : e.voyage_id = voyageId}

\* C16: after deleteVoyage(v) succeeded on an existing inactive voyage, no
\* entry created while v was active is left, nor a reading or a distance
\* record of such an entry, and the entries created under the other voyages,
\* with their readings and distance records, are as they were.
C16_DeleteRemovesExactlyItsEntries ==
  [][\A voyageId \in 1..MaxVoyages :
       (/\ \E v \in voyage_info : v.id = voyageId /\ v.is_active = 0
        /\ DeleteVoyage(voyageId))
         => LET own == {e.id : e \in EntriesCreatedUnder(voyageId)}
            IN  /\ lastOp'.ok
                /\ log_entries' = {e \in log_entries : e.id \notin own}
                /\ log_data' = {r \in log_data : r.log_id \notin own}
                /\ distance_log' = {d \in distance_log : d.log_id \notin own}]_vars

\* C17: renameVoyage with an id no voyage row has is answered with an error
\* (no success result) and leaves every table as it was.
C17_RenameUnknownRejected ==
  [][\A voyageId \in 1..(MaxVoyages + 1), newName \in VoyageNames :
       (/\ \A v \in voyage_info : v.id # voyageId
        /\ RenameVoyage(voyageId, newName))
         => /\ lastOp' = [op |-> "renameVoyage", ok |-> FALSE, raw |-> NoFix]
            /\ UNCHANGED tables]_vars

PositionBearing == {e \in log_entries : e.latitude # NULL /\ e.longitude # NULL}

\* C19: the distance record a report cycle writes for a (complete) position
\* holds the distance from a latest entry, by timestamp, among the persisted
\* entries that carry a position, report or auto-track sample alike, and 0
\* when no entry carries a position.
C19_SinceLatestPosition ==
  [][(lastOp'.op = "handleNoonReport" /\ lastOp'.ok /\ Complete(lastOp'.raw))
       => \A d \in distance_log' \ distance_log :
            LET latest == {e \in PositionBearing :
                             \A f \in PositionBearing : f.timestamp <= e.timestamp}
            IN  IF PositionBearing = {}
                THEN d.distance_since_last = 0
                ELSE \E e \in latest :
                       d.distance_since_last =
                         RoundTenth(haversineDistance(e.latitude, e.longitude,
                                                      lastOp'.raw.latitude,
                                                      lastOp'.raw.longitude))]_vars

(***************************************************************************)
(* Properties of the manual trigger.                                       *)
(***************************************************************************)
\* C20: a manual trigger invokes the report callback and leaves the scheduler
\* as it was, lastReportTime included; and a poll in the trigger window of a
\* due instant returns without firing only when a scheduled firing for that
\* due instant has taken place, whatever manual triggers came before.
C20_ManualKeepsSchedule ==
  [][/\ \A raw \in RawPositions, customData \in CustomDataSets \cup {<<>>} :
          ManualTrigger(raw, customData)
            => /\ lastOp'.op \in {"handleNoonReport", "handleNoonReport.catch"}
               /\ UNCHANGED <<scheduler, lastReportTime, firings>>
     /\ (/\ lastOp'.op = "checkForScheduledReport"
         /\ Abs(now - getNextReportTime) < REPORT_TRIGGER_WINDOW)
          => \E i \in 1..Len(firings) : firings[i].due = getNextReportTime]_vars

\* A manual trigger has run in the trigger window of a due instant for which
\* the running scheduler has not fired yet.
C20_Witness ==
  /\ lastOp.op = "handleNoonReport"
  /\ scheduler = "running"
  /\ firings = <<>>
  /\ lastReportTime = NULL
  /\ Abs(now - getNextReportTime) < REPORT_TRIGGER_WINDOW

(***************************************************************************)
(* Properties of the position sampler.                                     *)
(***************************************************************************)
\* A sampler tick reading `raw` has to persist it: the position is available
\* (both coordinates present) and nothing was sampled before or it is at
\* least the threshold away from the last sampled position in latitude or in
\* longitude.
MustSample(raw) ==
  /\ Complete(raw)
  /\ \/ ~lastPosition.present
     \/ Abs(raw.latitude - Num(lastPosition.latitude)) >= SkipThreshold
     \/ Abs(raw.longitude - Num(lastPosition.longitude)) >= SkipThreshold

\* C21: a sampler tick persists one auto-track entry (is_auto_track = 1, no
\* log text, one reading per collected value) at the position it read if and
\* only if it has to sample that position, and writes nothing otherwise.
C21_SampleIffMoved ==
  [][\A raw \in RawPositions, customData \in CustomDataSets :
       SamplerTick(raw, customData)
         => IF MustSample(raw)
            THEN /\ \E e \in log_entries' \ log_entries :
                      /\ log_entries' = log_entries \cup {e}
                      /\ e.is_auto_track = 1 /\ e.log_text = NULL
                      /\ e.latitude = raw.latitude /\ e.longitude = raw.longitude
                      /\ Cardinality({r \in log_data' \ log_data : r.log_id = e.id})
                           = Len(customData)
                 /\ distance_log' = distance_log
            ELSE UNCHANGED tables]_vars

(***************************************************************************)
(* Properties of the startup wait.                                         *)
(***************************************************************************)
\* C22: a position check fires only while no scheduler exists; it starts the
\* scheduler exactly when it reads a position (both coordinates present) or
\* is the 24th check, and then ends the wait; the degraded condition is
\* reported exactly when the 24th check starts the scheduler without a
\* position; and after start() the scheduler is eventually running.
C22_SchedulerStartedOnce ==
  /\ [][\A raw \in WaitPositions, customData \in CustomDataSets :
          PositionCheckCounted(raw, customData)
            => /\ scheduler = "none"
               /\ (scheduler' = "running")
                    <=> (Complete(raw) \/ positionCheckCount' = maxPositionChecks)
               /\ waiting' <=> (scheduler' = "none")
               /\ degraded'
                    <=> (~Complete(raw) /\ positionCheckCount' = maxPositionChecks)]_vars
  /\ started ~> (scheduler = "running")

(***************************************************************************)
(* Properties of the database file.                                        *)
(***************************************************************************)
\* C23: when close() has run, the file holds the tables as they are, changes
\* that were waiting on the save timer included, and the timer is cleared;
\* after close no save timer fires and the file is not written again.
C23_CloseFlushes ==
  [][/\ (stopped' /\ ~stopped) => (disk' = FileImage' /\ ~saveTimeout')
     /\ stopped => (~SaveTimer /\ disk' = disk)]_vars

\* close() found a change waiting on the save timer and wrote it.
C23_Witness ==
  /\ lastOp.op = "close.saveDatabase"
  /\ stopped
  /\ \E e \in log_entries : e.email_sent = 1
  /\ disk = FileImage

(***************************************************************************)
(* Properties of the report cycle under mailer failures.                   *)
(***************************************************************************)
\* C24: when the send of a persisted entry fails, by a failed result or by an
\* exception of the mailer, the cycle goes on to its end: the entry stays,
\* the pending text is cleared and the cycle does not end in its catch block
\* (which would skip the publishing).
C24_MailerFailureIsolated ==
  [][\A logId \in 1..MaxLogs :
       (EmailDone(logId, FALSE) \/ EmailThrows(logId))
         => /\ log_entries' = log_entries
            /\ \E e \in log_entries : e.id = logId
            /\ pendingLogText' = NULL
            /\ lastOp'.op # "handleNoonReport.catch"]_vars

(***************************************************************************)
(* Properties of the anchor and of parseTime.                              *)
(***************************************************************************)
\* C25: the due instant falls on the configured HH:MM, read in the configured
\* time reference (UTC in GPS mode, UTC + timezoneOffset in fixed mode), plus
\* a whole number of intervals, whatever the host's own time zone is.
C25_AnchorInConfiguredReference ==
  LET interval == (IF Truthy(options.reportInterval) THEN options.reportInterval
                   ELSE DEFAULT_REPORT_INTERVAL_HOURS) * SECONDS_PER_HOUR
      parsed == parseTime(options.firstReportTime)
      timeOfDay == parsed.hours * SECONDS_PER_HOUR + parsed.minutes * 60
  IN  (getNextReportTime + ConfiguredOffset - timeOfDay) % interval = 0

\* A string of the form HH:MM: one or two digits, a colon, one or two digits,
\* with hours 0-23 and minutes 0-59.
WellFormedTime(str) ==
  \E at \in 2..3 :
    /\ Len(str) \in (at + 1)..(at + 2)
    /\ str[at] = ":"
    /\ \A i \in (1..Len(str)) \ {at} : str[i] \in TimeDigits
    /\ Number(SubSeq(str, 1, at - 1)) <= 23
    /\ Number(SubSeq(str, at + 1, Len(str))) <= 59

\* C26: parseTime returns the hours and minutes written in a well-formed
\* string, and for every other string returns 12:00 and reports the failure.
C26_ParseOrDefault ==
  timeCall.done
    => IF WellFormedTime(timeCall.timeStr)
       THEN LET at == CHOOSE i \in 2..3 : timeCall.timeStr[i] = ":"
            IN  /\ timeCall.hours = Number(SubSeq(timeCall.timeStr, 1, at - 1))
                /\ timeCall.minutes =
                     Number(SubSeq(timeCall.timeStr, at + 1, Len(timeCall.timeStr)))
                /\ ~timeCall.reported
       ELSE /\ timeCall.hours = 12 /\ timeCall.minutes = 0
            /\ timeCall.reported


\* An entry as it is in the table after the step: the same row, or the same
\* row with email_sent raised from 0 to 1.
Kept(e) ==
  \E f \in log_entries' :
    /\ f = [e EXCEPT !.email_sent = f.email_sent]
    /\ f.email_sent >= e.email_sent

\* C27: in every step every log entry stays as it is, but for email_sent
\* going from 0 to 1, and the table loses no entry: the storage specification
\* has no deleteVoyage, so neither its operations nor init on a restart may
\* remove or rewrite an entry.
C27_EntriesImmutable == [][\A e \in log_entries : Kept(e)]_vars


(***************************************************************************)
(* Properties of the writers taken together.                               *)
(***************************************************************************)
\* C28: a report cycle that appends an entry appends exactly that entry and
\* its distance record in the step in which it read the last entry, and the
\* distance is the one from a latest entry, by timestamp, of the table as it
\* was at that step; a sampler tick that appends an entry appends exactly
\* that entry, writes no distance record and leaves its position as the last
\* position in the same step.  No entry comes between a writer's read and its
\* append.
C28_ReadAndAppendTogether ==
  [][\A raw \in TrackPositions, customData \in CustomDataSets :
       /\ (ManualTriggerUpTo(MaxTrackLogs, raw, customData) /\ log_entries' # log_entries)
            => LET position == getPosition(raw)
                   latest == {e \in log_entries :
                                \A f \in log_entries : f.timestamp <= e.timestamp}
               IN  \E e \in log_entries' \ log_entries, d \in distance_log' \ distance_log :
                     /\ log_entries' = log_entries \cup {e}
                     /\ distance_log' = distance_log \cup {d}
                     /\ d.log_id = e.id
                     /\ \E lastLog \in (IF log_entries = {} THEN {NoLog} ELSE latest) :
                          d.distance_since_last =
                            RoundTenth(getDistanceSinceLast(lastLog, position.latitude,
                                                            position.longitude))
       /\ (SamplerTickUpTo(MaxTrackLogs, raw, customData) /\ log_entries' # log_entries)
            => \E e \in log_entries' \ log_entries :
                 /\ log_entries' = log_entries \cup {e}
                 /\ distance_log' = distance_log
                 /\ lastPosition'.latitude = e.latitude
                 /\ lastPosition'.longitude = e.longitude]_vars

\* A report cycle has appended the third entry, after an auto-track sample,
\* with a distance from an entry at another position.
C28_Witness ==
  /\ lastOp.op = "handleNoonReport" /\ lastOp.ok
  /\ Cardinality(log_entries) = 3
  /\ \E e \in log_entries : e.is_auto_track = 1
  /\ \E d \in distance_log : d.log_id = 3 /\ d.distance_since_last > 0


(***************************************************************************)
(* Properties of the cycle while a send is in flight.                      *)
(***************************************************************************)
\* C29: while report cycles wait on their send, a firing of the scheduler's
\* timer is evaluated as at any other time: in the trigger window of a due
\* instant that has not fired it fires, records the due instant and persists
\* the entry of the new cycle, the earlier sends still waiting; and a sampler
\* tick that has to sample persists its entry.
C29_SendDoesNotBlock ==
  [][\A raw \in SendPositions, customData \in CustomDataSets :
       /\ (/\ PollUpTo(MaxTrackLogs, MaxSends, raw, customData)
           /\ inFlight # {}
           /\ Abs(now - getNextReportTime) < REPORT_TRIGGER_WINDOW
           /\ ~(lastReportTime # NULL
                  /\ Abs(lastReportTime - getNextReportTime) < REPORT_TRIGGER_WINDOW))
            => /\ firings' = Append(firings, [due |-> getNextReportTime, at |-> now])
               /\ lastReportTime' = getNextReportTime
               /\ \E e \in log_entries' \ log_entries :
                    /\ log_entries' = log_entries \cup {e}
                    /\ e.is_auto_track = 0 /\ e.timestamp = now
                    /\ inFlight' = inFlight \cup {e.id}
       /\ (/\ SamplerTickUpTo(MaxTrackLogs, raw, customData)
           /\ inFlight # {}
           /\ MustSample(raw))
            => \E e \in log_entries' \ log_entries :
                 /\ log_entries' = log_entries \cup {e}
                 /\ e.is_auto_track = 1
                 /\ inFlight' = inFlight]_vars

\* The scheduler has fired for two due instants, and the send of the first
\* cycle is still waiting when the entry of the second is persisted.
C29_Witness ==
  /\ Len(firings) = 2 /\ firings[1].due < firings[2].due
  /\ Cardinality(inFlight) = 2
  /\ \A logId \in inFlight : \E e \in log_entries : e.id = logId /\ e.email_sent = 0
  /\ lastOp.op = "handleNoonReport" /\ lastOp.ok


(***************************************************************************)
(* Properties of the pending text.                                         *)
(***************************************************************************)
\* C30: submitLog sets the pending text, to the text submitted or to none,
\* and changes nothing else: no log entry, reading or distance record, no
\* voyage, no report cycle or send, and neither the scheduler nor
\* lastReportTime nor the firings recorded.
C30_SubmitOnlySetsPending ==
  [][\A clear \in BOOLEAN :
       SubmitLog(clear)
         => /\ pendingLogText' = (IF clear THEN NULL ELSE textSeq')
            /\ UNCHANGED <<tables, inFlight, sendLog, markLog, scheduler, lastReportTime,
                           firings, lastPosition, now>>]_vars

\* A text has been submitted while the scheduler runs, entries exist and a
\* report cycle waits on its send.
C30_Witness ==
  /\ lastOp.op = "submitLog"
  /\ pendingLogText # NULL
  /\ scheduler = "running"
  /\ log_entries # {}
  /\ inFlight # {}


(***************************************************************************)
(* Properties of the stored distances.                                     *)
(***************************************************************************)
\* C31: the distance record a report cycle writes holds the distance from the
\* last entry and the voyage total as they were computed, not rounded to one
\* decimal place.
C31_StoredUnrounded ==
  [][\A raw \in TrackPositions, customData \in CustomDataSets :
       (ManualTriggerUpTo(MaxTrackLogs, raw, customData) /\ distance_log' # distance_log)
         => LET position == getPosition(raw)
            IN  \A d \in distance_log' \ distance_log :
                  \E lastLog \in (IF log_entries = {} THEN {NoLog} ELSE getLastLog) :
                    LET computed == getDistanceSinceLast(lastLog, position.latitude,
                                                         position.longitude)
                    IN  /\ d.distance_since_last = computed
                        /\ d.total_distance = getVoyageDistance + computed]_vars


(***************************************************************************)
(* Properties of the unit conversion.                                      *)
(***************************************************************************)
\* A wind angle or wind direction path: it names the wind and an angle or a
\* direction, and neither a temperature nor a speed.
WindAnglePath(path) ==
  /\ "wind" \in path
  /\ "angle" \in path \/ "direction" \in path
  /\ "temperature" \notin path /\ "speed" \notin path

\* C32: convertValueWithUnit returns, for every raw value on a wind angle or
\* wind direction path, degrees from 0 up to but not including 360, and for
\* no raw value, on every path, no value and the empty unit.
C32_WindAngleNormalized ==
  conversion.done
    => /\ conversion.value = NULL => (conversion.result = NULL /\ conversion.unit = "")
       /\ (conversion.value # NULL /\ WindAnglePath(conversion.path))
            => /\ 0 <= conversion.result /\ conversion.result < 360 * 1000
               /\ conversion.unit = "deg"


(***************************************************************************)
(* Properties of the sequence of due instants.                             *)
(***************************************************************************)
\* C33: with a report interval shorter than 24 hours, the due instant that
\* follows the next due instant is exactly one interval after it, at every
\* time of day: no slot is skipped across midnight.
C33_SlotsOneIntervalApart ==
  (Truthy(options.reportInterval) /\ options.reportInterval < 24)
    => NextReportTimeAt(getNextReportTime)
         = getNextReportTime + options.reportInterval * SECONDS_PER_HOUR


\* Firings recorded for the due instant of the poll specification.
FiringsForDue == {i \in 1..Len(firings) : firings[i].due = PollDue}

\* C34: with the scheduler's timer firing every 60 seconds, the callback is
\* invoked at most once for the due instant, and once the due instant has
\* passed and the check at or after it has run, exactly once, for every phase
\* of the timer, a check exactly on the due instant included.
C34_EveryDueInstantOnce ==
  /\ Cardinality(FiringsForDue) <= 1
  /\ (scheduler = "running" /\ lastOp.op # "tick" /\ now >= PollDue)
       => Cardinality(FiringsForDue) = 1


(***************************************************************************)
(* Properties of voyage membership.                                        *)
(***************************************************************************)
\* C35: for every persisted entry and every voyage, the entry lies in the
\* time range of the voyage (what getLogsByVoyage returns) exactly when the
\* voyage is the one stored in its voyage_id.
C35_RangeIsVoyageId ==
  \A e \in log_entries, v \in voyage_info :
    (e \in getLogsByVoyage(v.id)) <=> (e.voyage_id = v.id)


(***************************************************************************)
(* Properties of the free text across report cycles.                       *)
(***************************************************************************)
\* C36: no two persisted entries carry the same submitted text, whichever
\* report cycles start while earlier ones wait on their send.
C36_TextInOneEntry ==
  \A e \in log_entries, f \in log_entries :
    (e.log_text # NULL /\ e.log_text = f.log_text) => e = f


\* C37: when a report cycle that was waiting on its send ends, a text that is
\* pending at that moment, submitted during the send or before, is stored in
\* a persisted entry or is still the pending text.
C37_TextNotLost ==
  [][(inFlight' # inFlight /\ inFlight' \subseteq inFlight /\ pendingLogText # NULL)
       => \/ pendingLogText' = pendingLogText
          \/ \E e \in log_entries' : e.log_text = pendingLogText]_vars


(***************************************************************************)
(* Properties of the sampler's last position.                              *)
(***************************************************************************)
\* C38: the sampler's last sampled position, when it has one, is the position
\* of a persisted auto-track entry, also after a tick whose createLogEntry
\* threw.
C38_LastPositionPersisted ==
  lastPosition.present
    => \E e \in log_entries :
         /\ e.is_auto_track = 1
         /\ e.latitude = lastPosition.latitude
         /\ e.longitude = lastPosition.longitude

====
